---- MODULE Spec2Model ----
(***************************************************************************)
(* A model of the intar scenario runner: one scenario run from the         *)
(* initialization task of the UI (create the VMs, start the L2 switch and  *)
(* the QEMU processes, wait for the agents and the boot probes, take the   *)
(* `init` checkpoint), through the Running phase (probe ticks, reset), to  *)
(* the teardown (stop + cleanup, or the drop of the runner on an error).   *)
(*                                                                         *)
(* The environment (QEMU, the guest agents, the file system, the user) is  *)
(* nondeterministic.  The variable `faults` names the classes of           *)
(* environment failure that can occur in a run; each specification below   *)
(* fixes it in its initial states and no action changes it.                *)
(***************************************************************************)
EXTENDS Integers, Sequences, FiniteSets, TLC

\* Bounds of the model.
MaxVMs == 2
MaxProbeList == 2

\* Program constants.
BootProbePolls == 60

AllVMs == 1..MaxVMs

\* scenario.probes: the probe definitions of the scenarios considered, with
\* their phases.  Every name a VM lists is defined (Scenario::validate).
Probes == {"b", "s"}

ProbePhase(p) == IF p = "b" THEN "Boot" ELSE "Scenario"

\* The per-VM paths QemuInstance owns in the run directory.
Paths == {"pid", "qmp", "serial", "actions"}

Sockets == {"qmp", "serial", "actions"}

FaultKinds == {"create", "spawn", "agent", "probe", "qmp", "rm"}

\* Sequences over S of length at most n.
SeqsUpTo(S, n) == UNION {[1..k -> S] : k \in 0..n}

\* The sequences that enumerate the set S without repetition.
Perms(S) ==
    {f \in [1..Cardinality(S) -> S] : \A i, j \in 1..Cardinality(S) : f[i] = f[j] => i = j}

Range(f) == {f[i] : i \in DOMAIN f}

\* Position of v in the sequence order (0 when absent).
IndexOf(order, v) == IF \E i \in DOMAIN order : order[i] = v
                     THEN CHOOSE i \in DOMAIN order : order[i] = v
                     ELSE 0

VARIABLES
    nvms,           \* scenario.vms.len()
    vm_probes,      \* scenario.vms[i].probes, a list of probe names per VM
    vms_iter,       \* the iteration order of the HashMap runner.vms
    faults,         \* classes of environment failure possible in this run
    pc,             \* where the run is
    op,             \* the runner operation in progress: "init", "reset", "none"
    state,          \* runner.state (ScenarioState)
    phase,          \* app.phase (AppPhase)
    vm_order,       \* runner.vm_order
    vms,            \* keys of runner.vms: the QemuInstances the runner owns
    vm_state,       \* QemuInstance.state
    process,        \* QemuInstance.process is Some
    child,          \* the QEMU child process: none, running, exited, killed
    files,          \* which of the VM's Paths exist
    rm_failed,      \* paths whose removal was attempted and failed
    probe_results,  \* runner.probe_results
    lan_switch,     \* runner.lan_switch is Some
    switch_thread,  \* the forwarding thread: none, running, stopped
    run_dir,        \* the run directory exists
    polls,          \* iterations of wait_for_boot_probes done
    cursor,         \* position in the sequential loop in progress
    pause_st,       \* per VM: the pause future of try_join_all
    snap_st,        \* per VM: the snapshot-save / snapshot-load call
    resume_st,      \* per VM: the resume future of try_join_all
    snap_result,    \* result of the last save_checkpoint / reset snapshot part
    stop_st,        \* per VM: QemuInstance::stop
    fail_at,        \* the step whose error ended the run ("none" if none)
    exit,           \* result of App::run: none, ok, err
    disks,          \* the VMs whose overlay disk exists in the run directory
    isos,           \* the VMs whose cloud-init seed ISO exists
    switch_spawns,  \* number of LanSwitch::spawn calls that succeeded
    qmp_stream,     \* the lines QEMU sends on a QMP connection after a request
    qmp_eof,        \* QEMU closes the connection after them (else it stays silent)
    qmp_pos,        \* lines read by read_qmp_response so far
    qmp_reply,      \* what read_qmp_response returned ("none" while reading)
    job_pc,         \* wait_for_job: idle, query, dismiss, blocked, done
    job_polls,      \* query-jobs polls that did not find the job concluded
    job_seen,       \* the job found concluded ("none" before)
    job_dismiss,    \* the job-dismiss call: none, return, error, failed, blocked
    job_result,     \* what wait_for_job returned ("none" before)
    agent_stream,   \* the lines the agent sends after a request
    agent_end,      \* after them: eof, silent, io_err
    agent_expected, \* the response tag expected for the request
    agent_written,  \* request lines written
    agent_pos,      \* lines read by send_request_expect so far
    agent_result,   \* what send_request_expect returned
    lan_peers,      \* the peer addresses given to LanSwitch::spawn, in order
    mac_table,      \* run_switch's learning table: MAC -> address (0: absent)
    lan_rx,         \* the datagram run_switch received last
    lan_tx,         \* the addresses it was sent to, in order
    lan_heard,      \* history: the address the last frame with each source MAC came from
    lan_stopped,    \* the forwarding loop has ended
    drv_kind,       \* derive_lines_from_input or derive_lines_from_output
    drv_chunk,      \* the raw bytes given to it
    drv_pos,        \* bytes of the chunk processed so far
    drv_st,         \* the line buffer, the escape flag and the lines sent
    drv_cuts,       \* the lengths of the raw events handled so far
    rec_pc,         \* guest: off, idle, command (session), interactive (session)
    rec_steps,      \* guest: steps taken on this connection
    rec_pty,        \* guest: the line buffers of proxy_pty_session
    rec_wire,       \* the events written by the guest and not yet read by the host
    line_state,     \* host: the LineCapture of the connection
    cast_writer,    \* host: a cast writer is open
    rec_raw_seen,   \* history: a raw event was handled on this connection
    rec_both,       \* history: the ssh_line events handled whose bytes also came raw
    tx_lines,       \* the ActionLineEvents given to tx_lines
    rec_expected,   \* the lines completed in interactive sessions of the guest
    stp_pc,         \* apply_vm_steps_to_cloud_init: off, start, loop, done
    stp_vm,         \* the VM name
    stp_steps,      \* the steps of the VM
    stp_pre,        \* the runcmd of the configuration before the call
    stp_config,     \* the CloudInitConfig: runcmd and write_files
    stp_runcmd,     \* the local runcmd string being built
    stp_i,          \* steps compiled so far
    scn_blocks,     \* the blocks of the scenario file
    scn_pos,        \* blocks parsed so far
    scenario,       \* the Scenario being built: images, probes, vms
    scn_result,     \* off, none, ok or the error of parse / validate
    addr_vms,       \* the number of VMs of the scenario
    addr_pc,        \* off, new, create, done
    addr_created,   \* VMs whose addresses create_vm has assigned
    addr_last,      \* the last bytes of the MACs and of the management IP of the last VM
    addr_result,    \* none, ok or the configuration error
    app_pc,         \* off, head, poll_init, events, probes, finish, abort, return, returned
    app_phase,      \* off or the AppPhase shown
    progress_rx,    \* the updates in the progress channel
    init_stage,     \* the updates start_initialization has sent
    init_task,      \* the initialization task: off, running, ok, err, aborted
    init_handle,    \* init_handle is Some
    init_result,    \* none or err
    app_runner,     \* self.runner is Some
    shutdown_signal, \* the flag set by the Ctrl-C listener
    should_quit,    \* flags.should_quit
    runner_stop,    \* none, or how stop() on the runner ended
    runner_cleanup, \* none, or how cleanup() on the runner ended
    app_exit,       \* none, ok, err: what run returned
    img_pc,         \* off, images, download, verify, create_vm, done
    img_run,        \* the number of the run
    img_checksum,   \* the checksum declared for the image source
    cache_file,     \* none, or the sha256 digest of the file at the cache path
    temp_file,      \* none or partial: the .img.tmp file
    base_image,     \* none, or the digest of the base image of the overlay disk
    img_result,     \* none, ok, err: how the initialization of this run ended
    wfa_pc,         \* off, wait, done
    wfa_vms,        \* the number of VMs of the runner
    wfa_vm,         \* the VM wait_for_agents is waiting for
    wfa_try,        \* the attempts wait_for_agent has made on it
    wfa_secs,       \* the seconds spent waiting for it
    wfa_answered,   \* the VMs whose agent answered a ping
    wfa_state,      \* the VmState of each VM
    wfa_result,     \* what wait_for_agents returned: kind and the VM its message names
    tk_pc,          \* off, next, sent, done
    tk_vms,         \* the number of VMs, numbered in scenario order
    tk_iter,        \* the iteration order of the HashMap runner.vms
    tk_with_probes, \* the VMs with a probe of the phase
    tk_pos,         \* the position of the loop in tk_iter
    tk_inflight,    \* the VMs whose request is sent and not yet handled
    tk_sent,        \* the VMs requests were sent to, in order
    tk_handled,     \* the VMs whose response or failure has been handled
    hs_pc,          \* off, greeting, send_capabilities, capabilities_reply, send_command, command_reply, done
    hs_stream,      \* the lines QEMU sends on the connection
    hs_eof,         \* QEMU closes the connection after them
    hs_pos,         \* the lines read so far
    hs_sent,        \* what the client has written, in order
    hs_result,      \* none, ok or the error of qmp_command
    vs_pc,          \* off, create, start, launched, agents, running, done
    vs_scenario,    \* the names of the VMs of the scenario, in order
    vs_vms,         \* the VmState of the instance under each name of runner.vms
    vs_order,       \* runner.vm_order
    vs_cursor,      \* the position in vs_scenario, then in vs_order
    vs_spawned,     \* the QEMU processes spawned for each name
    vs_failed,      \* the VM a fatal failure concerned
    vs_resets       \* the resets made

vars == <<nvms, vm_probes, vms_iter, faults, pc, op, state, phase, vm_order, vms,
          vm_state, process, child, files, rm_failed, probe_results, lan_switch,
          switch_thread, run_dir, polls, cursor, pause_st, snap_st, resume_st,
          snap_result, stop_st, fail_at, exit, disks, isos, switch_spawns,
          qmp_stream, qmp_eof, qmp_pos, qmp_reply,
          job_pc, job_polls, job_seen, job_dismiss, job_result,
          agent_stream, agent_end, agent_expected, agent_written, agent_pos,
          agent_result,
          lan_peers, mac_table, lan_rx, lan_tx, lan_heard, lan_stopped,
          drv_kind, drv_chunk, drv_pos, drv_st, drv_cuts,
          rec_pc, rec_steps, rec_pty, rec_wire, line_state, cast_writer, rec_raw_seen, rec_both, tx_lines, rec_expected,
          stp_pc, stp_vm, stp_steps, stp_pre, stp_config, stp_runcmd, stp_i,
          scn_blocks, scn_pos, scenario, scn_result,
          addr_vms, addr_pc, addr_created, addr_last, addr_result,
          app_pc, app_phase, progress_rx, init_stage, init_task, init_handle, init_result, app_runner, shutdown_signal, should_quit, runner_stop, runner_cleanup, app_exit,
          img_pc, img_run, img_checksum, cache_file, temp_file, base_image, img_result,
          wfa_pc, wfa_vms, wfa_vm, wfa_try, wfa_secs, wfa_answered, wfa_state, wfa_result,
          tk_pc, tk_vms, tk_iter, tk_with_probes, tk_pos, tk_inflight, tk_sent, tk_handled,
          hs_pc, hs_stream, hs_eof, hs_pos, hs_sent, hs_result,
          vs_pc, vs_scenario, vs_vms, vs_order, vs_cursor, vs_spawned, vs_failed, vs_resets>>

\* The variables of the scenario run.
runner_vars == <<nvms, vm_probes, vms_iter, faults, pc, op, state, phase, vm_order, vms,
                 vm_state, process, child, files, rm_failed, probe_results, lan_switch,
                 switch_thread, run_dir, polls, cursor, pause_st, snap_st, resume_st,
                 snap_result, stop_st, fail_at, exit, disks, isos, switch_spawns>>

\* One QMP connection reading the response to a command.
qmp_vars == <<qmp_stream, qmp_eof, qmp_pos, qmp_reply>>

\* One wait_for_job call.
job_vars == <<job_pc, job_polls, job_seen, job_dismiss, job_result>>

\* One send_request_expect call on an agent connection.
agent_vars == <<agent_stream, agent_end, agent_expected, agent_written, agent_pos,
                agent_result>>

\* The forwarding thread of one LanSwitch.
lan_vars == <<lan_peers, mac_table, lan_rx, lan_tx, lan_heard, lan_stopped>>

\* One direction of a LineCapture fed one raw byte stream.
derive_vars == <<drv_kind, drv_chunk, drv_pos, drv_st, drv_cuts>>

\* One action-stream connection of start_vm_actions_task and its guest.
recorder_vars == <<rec_pc, rec_steps, rec_pty, rec_wire, line_state, cast_writer, rec_raw_seen, rec_both, tx_lines,
                   rec_expected>>

\* One apply_vm_steps_to_cloud_init call.
steps_vars == <<stp_pc, stp_vm, stp_steps, stp_pre, stp_config, stp_runcmd, stp_i>>

\* One scenario file parsed and validated.
scenario_file_vars == <<scn_blocks, scn_pos, scenario, scn_result>>

\* The addresses given to the VMs of one scenario.
address_vars == <<addr_vms, addr_pc, addr_created, addr_last, addr_result>>

\* The event loop of the app and its initialization task.
app_vars == <<app_pc, app_phase, progress_rx, init_stage, init_task, init_handle, init_result, app_runner, shutdown_signal, should_quit, runner_stop, runner_cleanup, app_exit>>

\* The image cache over the runs of the program.
image_vars == <<img_pc, img_run, img_checksum, cache_file, temp_file, base_image, img_result>>

\* One call of wait_for_agents.
wait_vars == <<wfa_pc, wfa_vms, wfa_vm, wfa_try, wfa_secs, wfa_answered, wfa_state, wfa_result>>

\* One tick of check_probes_phase.
tick_vars == <<tk_pc, tk_vms, tk_iter, tk_with_probes, tk_pos, tk_inflight, tk_sent, tk_handled>>

\* One call of qmp_command on its connection.
handshake_vars == <<hs_pc, hs_stream, hs_eof, hs_pos, hs_sent, hs_result>>

\* The VmState of the instances of a runner.
vm_state_vars == <<vs_pc, vs_scenario, vs_vms, vs_order, vs_cursor, vs_spawned, vs_failed, vs_resets>>

\* The components modelled on their own, which a scenario run leaves alone.
component_vars == <<qmp_vars, job_vars, agent_vars, lan_vars, derive_vars,
                   recorder_vars, steps_vars, scenario_file_vars, address_vars, app_vars,
                   image_vars, wait_vars, tick_vars, handshake_vars, vm_state_vars>>

\* The artifacts the runner creates besides the per-VM sockets and pid file.
artifact_vars == <<disks, isos, switch_spawns>>

scenario_vars == <<nvms, vm_probes, vms_iter, faults>>

ScenarioVMs == 1..nvms

EmptyResults == [p \in Probes |-> "none"]

Idle == [v \in AllVMs |-> "idle"]

Can(f) == f \in faults

\* The outcomes of an environment step that fails only under fault class f.
Outcomes(f) == IF Can(f) THEN {"ok", "err"} ELSE {"ok"}

----------------------------------------------------------------------------
(* Initial states: the state after App::new, for each scenario considered. *)

InitRun ==
    /\ pc = "new_runner"
    /\ op = "init"
    /\ state = "Initializing"
    /\ phase = "Initializing"
    /\ vm_order = <<>>
    /\ vms = {}
    /\ vm_state = [v \in AllVMs |-> "none"]
    /\ process = [v \in AllVMs |-> FALSE]
    /\ child = [v \in AllVMs |-> "none"]
    /\ files = [v \in AllVMs |-> {}]
    /\ rm_failed = [v \in AllVMs |-> {}]
    /\ probe_results = [v \in AllVMs |-> EmptyResults]
    /\ lan_switch = FALSE
    /\ switch_thread = "none"
    /\ run_dir = FALSE
    /\ polls = 0
    /\ cursor = 1
    /\ pause_st = Idle
    /\ snap_st = Idle
    /\ resume_st = Idle
    /\ snap_result = "none"
    /\ stop_st = Idle
    /\ fail_at = "none"
    /\ exit = "none"
    /\ disks = {}
    /\ isos = {}
    /\ switch_spawns = 0

----------------------------------------------------------------------------
(* App::start_initialization: the runner, its VMs, the switch, the QEMU    *)
(* processes.                                                              *)

vm_vars == <<vm_state, process, child, files, rm_failed>>

snap_vars == <<pause_st, snap_st, resume_st, snap_result>>

net_vars == <<lan_switch, switch_thread>>

\* The runner goes out of scope with an error of step `step`: the `?` of
\* start_initialization, or of App::run after a failed reset.
RunnerDroppedWithError(step) ==
    /\ pc' = "drop_switch"
    /\ fail_at' = step
    /\ exit' = "err"

new_with_dirs ==
    /\ pc = "new_runner"
    /\ run_dir' = TRUE
    /\ \E r \in Outcomes("create") :
         IF r = "ok"
         THEN /\ pc' = IF nvms = 0 THEN "start_switch" ELSE "create"
              /\ UNCHANGED <<fail_at, exit>>
         ELSE \* no runner was built: nothing to drop
              /\ pc' = "exit"
              /\ fail_at' = "new_runner"
              /\ exit' = "err"
    /\ UNCHANGED <<scenario_vars, component_vars, artifact_vars, op, state, phase, vm_order, vms, vm_vars,
                   probe_results, net_vars, polls, cursor, snap_vars, stop_st>>

\* create_vm for the next VM of scenario.vms.
create_vm ==
    /\ pc = "create"
    /\ LET v == Len(vm_order) + 1 IN
       \E r \in Outcomes("create") :
         IF r = "ok"
         THEN /\ vms' = vms \cup {v}
              /\ vm_state' = [vm_state EXCEPT ![v] = "Starting"]
              /\ probe_results' = [probe_results EXCEPT ![v] = EmptyResults]
              /\ vm_order' = Append(vm_order, v)
              /\ disks' = disks \cup {v}
              /\ isos' = isos \cup {v}
              /\ pc' = IF v = nvms THEN "start_switch" ELSE "create"
              /\ UNCHANGED <<fail_at, exit>>
         ELSE \* the error comes before or after create_overlay_disk; create_iso
              \* is the last fallible call
              /\ RunnerDroppedWithError("create")
              /\ \E made \in SUBSET {v} : disks' = disks \cup made
              /\ UNCHANGED <<vms, vm_state, probe_results, vm_order, isos>>
    /\ switch_spawns' = switch_spawns
    /\ UNCHANGED <<scenario_vars, component_vars, op, state, phase, process, child, files, rm_failed,
                   net_vars, run_dir, polls, cursor, snap_vars, stop_st>>

\* A faulty hub port, for comparison: reserved as soon as there is a VM.
hub_port_for_any_vm == nvms > 0

\* shared_lan_hub_port is Some iff the scenario has more than one VM.
shared_lan_hub_port == nvms > 1

\* create_vm gives VM v a shared-LAN endpoint (a second netdev) iff the
\* runner has a hub port.
shared_lan(v) == shared_lan_hub_port

\* start_vms, first statement: the switch is spawned before any VM starts.
start_lan_switch_if_needed ==
    /\ pc = "start_switch"
    /\ cursor' = 1
    /\ IF ~shared_lan_hub_port \/ lan_switch
       THEN /\ pc' = "start_vm"
            /\ UNCHANGED <<net_vars, switch_spawns, fail_at, exit>>
       ELSE \E r \in Outcomes("spawn") :
              IF r = "ok"
              THEN /\ lan_switch' = TRUE
                   /\ switch_thread' = "running"
                   /\ switch_spawns' = switch_spawns + 1
                   /\ pc' = "start_vm"
                   /\ UNCHANGED <<fail_at, exit>>
              ELSE /\ RunnerDroppedWithError("switch")
                   /\ UNCHANGED <<net_vars, switch_spawns>>
    /\ UNCHANGED <<scenario_vars, component_vars, disks, isos, op, state, phase, vm_order, vms, vm_vars,
                   probe_results, run_dir, polls, snap_vars, stop_st>>

\* start_vms, loop body: QemuInstance::start on the next VM of vm_order, then
\* state = CloudInit.  QEMU creates its sockets when it starts.
start_vm ==
    /\ pc = "start_vm"
    /\ cursor <= Len(vm_order)
    /\ LET v == vm_order[cursor] IN
       \E r \in {"ok"} \cup (IF Can("spawn") THEN {"spawn_err", "pid_err"} ELSE {}) :
         CASE r = "ok" ->
                /\ child' = [child EXCEPT ![v] = "running"]
                /\ process' = [process EXCEPT ![v] = TRUE]
                /\ files' = [files EXCEPT ![v] = Paths]
                /\ vm_state' = [vm_state EXCEPT ![v] = "CloudInit"]
                /\ cursor' = cursor + 1
                /\ UNCHANGED <<pc, fail_at, exit>>
           [] r = "pid_err" ->
                \* the child was spawned, the pid file was not written, and the
                \* handle is dropped without being stored
                /\ child' = [child EXCEPT ![v] = "running"]
                /\ files' = [files EXCEPT ![v] = Sockets]
                /\ RunnerDroppedWithError("spawn")
                /\ UNCHANGED <<process, vm_state, cursor>>
           [] r = "spawn_err" ->
                /\ RunnerDroppedWithError("spawn")
                /\ UNCHANGED <<child, process, files, vm_state, cursor>>
    /\ UNCHANGED <<scenario_vars, component_vars, artifact_vars, op, state, phase, vm_order, vms, rm_failed,
                   probe_results, net_vars, run_dir, polls, snap_vars, stop_st>>

\* start_vms, last statement (save_state), then start_action_recording.
save_state ==
    /\ pc = "start_vm"
    /\ cursor > Len(vm_order)
    /\ \E r \in Outcomes("spawn") :
         IF r = "ok"
         THEN /\ pc' = "agents"
              /\ UNCHANGED <<fail_at, exit>>
         ELSE RunnerDroppedWithError("save_state")
    /\ UNCHANGED <<scenario_vars, component_vars, artifact_vars, op, state, phase, vm_order, vms, vm_vars,
                   probe_results, net_vars, run_dir, polls, cursor, snap_vars, stop_st>>

----------------------------------------------------------------------------
(* Probes.                                                                 *)

\* The probe ids of VM v that check_probes_phase sends to the agent.
probe_ids(v, ph) ==
    {vm_probes[v][i] : i \in {j \in DOMAIN vm_probes[v] : ProbePhase(vm_probes[v][j]) = ph}}

\* What the agent side of one VM does in a tick: the connection fails, the
\* check_all round trip fails, or the agent answers one result per probe.
AgentOutcomes(v, ph) ==
    [kind : {"results"}, passed : SUBSET probe_ids(v, ph)]
      \cup (IF Can("probe")
            THEN [kind : {"connect_err", "check_err"}, passed : {{}}]
            ELSE {})

\* The result map of VM v after the tick.
upsert_results(res, v, ph, o) ==
    IF probe_ids(v, ph) = {}
    THEN res
    ELSE IF o.kind = "results"
    THEN [p \in Probes |->
            IF p \in probe_ids(v, ph)
            THEN (IF p \in o.passed THEN "pass" ELSE "fail")
            ELSE res[p]]
    ELSE \* entry(id).or_insert_with(fail)
         [p \in Probes |->
            IF p \in probe_ids(v, ph) /\ res[p] = "none" THEN "fail" ELSE res[p]]

\* probe_results after check_probes_phase(ph) with agent outcomes out.
check_probes_phase(ph, out) ==
    [v \in AllVMs |->
       IF v \in vms THEN upsert_results(probe_results[v], v, ph, out[v])
       ELSE probe_results[v]]

expected_count(v, ph) ==
    Cardinality({i \in DOMAIN vm_probes[v] : ProbePhase(vm_probes[v][i]) = ph})

passing_count(res, v, ph) ==
    Cardinality({p \in Probes : res[v][p] = "pass" /\ ProbePhase(p) = ph})

\* all_scenario_probes_passing / all_boot_probes_passing over the keys of
\* probe_results, which are the VMs created so far.
all_probes_passing(res, ph) ==
    \A v \in Range(vm_order) : passing_count(res, v, ph) = expected_count(v, ph)

all_scenario_probes_passing(res) == all_probes_passing(res, "Scenario")

\* A faulty check, for comparison: satisfied by the boot probes of one VM.
some_boot_probes_passing(res) ==
    \E v \in Range(vm_order) : passing_count(res, v, "Boot") = expected_count(v, "Boot")

all_boot_probes_passing(res) == all_probes_passing(res, "Boot")

total_boot_probe_count ==
    Cardinality(UNION {{<<v, i>> : i \in {j \in DOMAIN vm_probes[v] :
                                             ProbePhase(vm_probes[v][j]) = "Boot"}} :
                       v \in ScenarioVMs})

\* A faulty end of check_probes_phase, for comparison: the state follows
\* the scenario probes in both directions and in every phase.
state_follows_probes(probe_phase, st, passing) ==
    IF passing THEN "Completed" ELSE "Running"

\* The end of check_probes_phase: in the scenario phase, passing scenario
\* probes complete the scenario; nothing else changes the state.
state_after_check(probe_phase, st, passing) ==
    IF probe_phase = "Scenario" /\ passing THEN "Completed" ELSE st

\* wait_for_agents: every VM becomes Ready only if every agent answered.
wait_for_agents ==
    /\ pc = "agents"
    /\ \E r \in (IF vms = {} THEN {"ok"} ELSE Outcomes("agent")) :
         IF r = "ok"
         THEN /\ vm_state' = [v \in AllVMs |-> IF v \in vms THEN "Ready" ELSE vm_state[v]]
              /\ pc' = "boot"
              /\ polls' = 0
              /\ UNCHANGED <<fail_at, exit>>
         ELSE /\ RunnerDroppedWithError("agents")
              /\ UNCHANGED <<vm_state, polls>>
    /\ UNCHANGED <<scenario_vars, component_vars, artifact_vars, op, state, phase, vm_order, vms, process, child, files,
                   rm_failed, probe_results, net_vars, run_dir, cursor, snap_vars, stop_st>>

\* What follows a successful wait_for_boot_probes: save_checkpoint("init") in
\* start_initialization, state = Running in reset.
AfterBootProbes ==
    IF op = "init"
    THEN /\ pc' = "pause"
         /\ pause_st' = Idle
         /\ snap_st' = Idle
         /\ resume_st' = Idle
         /\ snap_result' = "none"
         /\ UNCHANGED <<op, state, phase>>
    ELSE /\ pc' = "running"
         /\ op' = "none"
         /\ state' = "Running"
         /\ phase' = "Running"
         /\ UNCHANGED snap_vars

\* wait_for_boot_probes when the scenario lists no boot probe.
wait_for_boot_probes_none ==
    /\ pc = "boot"
    /\ total_boot_probe_count = 0
    /\ AfterBootProbes
    /\ UNCHANGED <<scenario_vars, component_vars, artifact_vars, vm_order, vms, vm_vars, probe_results, net_vars,
                   run_dir, polls, cursor, stop_st, fail_at, exit>>

\* One iteration of the loop of wait_for_boot_probes.
wait_for_boot_probes_poll ==
    /\ pc = "boot"
    /\ total_boot_probe_count # 0
    /\ polls < BootProbePolls
    /\ \E out \in [AllVMs -> UNION {AgentOutcomes(v, "Boot") : v \in AllVMs}] :
         /\ \A v \in AllVMs : out[v] \in AgentOutcomes(v, "Boot")
         /\ \A v \in AllVMs : (v \notin vms \/ probe_ids(v, "Boot") = {})
                                 => out[v] = [kind |-> "results", passed |-> {}]
         /\ probe_results' = check_probes_phase("Boot", out)
    /\ IF all_boot_probes_passing(probe_results')
       THEN /\ AfterBootProbes
            /\ polls' = 0
       ELSE /\ polls' = polls + 1
            /\ state' = state_after_check("Boot", state, all_scenario_probes_passing(probe_results'))
            /\ UNCHANGED <<pc, op, phase, snap_vars>>
    /\ UNCHANGED <<scenario_vars, component_vars, artifact_vars, vm_order, vms, vm_vars, net_vars, run_dir, cursor,
                   stop_st, fail_at, exit>>

\* The loop of wait_for_boot_probes ran out: Timeout.
wait_for_boot_probes_timeout ==
    /\ pc = "boot"
    /\ total_boot_probe_count # 0
    /\ polls = BootProbePolls
    /\ RunnerDroppedWithError("boot")
    /\ UNCHANGED <<scenario_vars, component_vars, artifact_vars, op, state, phase, vm_order, vms, vm_vars, probe_results,
                   net_vars, run_dir, polls, cursor, snap_vars, stop_st>>

----------------------------------------------------------------------------
(* Coordinated snapshots: ScenarioRunner::save_checkpoint and the first    *)
(* half of ScenarioRunner::reset.  A QMP call (QemuInstance::pause,        *)
(* resume, save_checkpoint, load_checkpoint) goes through the stages       *)
(*   idle -> conn (polled: connecting, handshake) -> sent (command         *)
(*   written) -> ok                                                        *)
(* and may fail before the command is written (err_conn) or after          *)
(* (err_cmd).                                                              *)

FailedStages == {"err_conn", "err_cmd"}

SentStages == {"sent", "ok", "err_cmd"}

qmp_step(st, r) ==
    CASE st = "idle" -> IF r = "ok" THEN "conn" ELSE "err_conn"
      [] st = "conn" -> IF r = "ok" THEN "sent" ELSE "err_conn"
      [] st = "sent" -> IF r = "ok" THEN "ok" ELSE "err_cmd"
      [] OTHER -> st

\* try_join_all polls its futures in the order of vms.values(): a future is
\* polled for the first time only after those before it.
first_poll_in_order(st, v) ==
    \A w \in vms : IndexOf(vms_iter, w) < IndexOf(vms_iter, v) => st[w] # "idle"

\* A faulty join, for comparison: it completes as soon as one future is done.
join_first_done(st) ==
    IF \E w \in vms : st[w] \in FailedStages THEN "err"
    ELSE IF \E w \in vms : st[w] = "ok" THEN "ok"
    ELSE "pending"

\* try_join_all: Err as soon as one future fails (the others are dropped where
\* they are), Ok when all are done.
try_join_all(st) ==
    IF \E w \in vms : st[w] \in FailedStages THEN "err"
    ELSE IF \A w \in vms : st[w] = "ok" THEN "ok"
    ELSE "pending"

\* The value save_checkpoint / the snapshot part of reset returns once the
\* resume futures are joined.
snapshot_result(pst, sst, rst) ==
    IF \E w \in vms : pst[w] \in FailedStages THEN "err"
    ELSE IF \E w \in vms : sst[w] \in FailedStages THEN "err"
    ELSE try_join_all(rst)

\* The caller's continuation of a returned snapshot call.
AfterSnapshot(res) ==
    /\ snap_result' = res
    /\ IF res = "err"
       THEN /\ RunnerDroppedWithError(IF op = "init" THEN "checkpoint" ELSE "reset")
            /\ UNCHANGED <<op, state, phase, probe_results>>
       ELSE IF op = "init"
       THEN \* start_initialization: runner.state = Running, ProgressUpdate::Ready
            /\ pc' = "running"
            /\ op' = "none"
            /\ state' = "Running"
            /\ phase' = "Running"
            /\ UNCHANGED <<probe_results, fail_at, exit>>
       ELSE \* reset: clear_probe_results, then wait_for_agents
            /\ pc' = "agents"
            /\ probe_results' = [v \in AllVMs |-> EmptyResults]
            /\ UNCHANGED <<op, state, phase, fail_at, exit>>

\* One step of the pause future of VM v under try_join_all.
pause_poll(v) ==
    /\ pc = "pause"
    /\ v \in vms
    /\ pause_st[v] \in {"idle", "conn", "sent"}
    /\ pause_st[v] = "idle" => first_poll_in_order(pause_st, v)
    /\ \E r \in Outcomes("qmp") :
         /\ pause_st' = [pause_st EXCEPT ![v] = qmp_step(pause_st[v], r)]
         /\ pc' = CASE try_join_all(pause_st') = "err" -> "resume"
                    [] try_join_all(pause_st') = "ok" -> "snap"
                    [] OTHER -> "pause"
    /\ cursor' = 1
    /\ UNCHANGED <<scenario_vars, component_vars, artifact_vars, op, state, phase, vm_order, vms, vm_vars, probe_results,
                   net_vars, run_dir, polls, snap_st, resume_st, snap_result, stop_st,
                   fail_at, exit>>

\* One step of snapshot-save (init) / snapshot-load (reset) on the VM the
\* sequential loop is at; the first error ends the loop.
snapshot_step ==
    /\ pc = "snap"
    /\ cursor <= Len(vms_iter)
    /\ LET v == vms_iter[cursor] IN
       \E r \in Outcomes("qmp") :
         /\ snap_st' = [snap_st EXCEPT ![v] = qmp_step(snap_st[v], r)]
         /\ cursor' = IF snap_st'[v] = "ok" THEN cursor + 1 ELSE cursor
         /\ pc' = IF snap_st'[v] \in FailedStages \/ cursor' > Len(vms_iter)
                  THEN "resume" ELSE "snap"
    /\ UNCHANGED <<scenario_vars, component_vars, artifact_vars, op, state, phase, vm_order, vms, vm_vars, probe_results,
                   net_vars, run_dir, polls, pause_st, resume_st, snap_result, stop_st,
                   fail_at, exit>>

\* One step of the resume future of VM v under try_join_all; when the join
\* completes the call returns.
resume_poll(v) ==
    /\ pc = "resume"
    /\ v \in vms
    /\ resume_st[v] \in {"idle", "conn", "sent"}
    /\ resume_st[v] = "idle" => first_poll_in_order(resume_st, v)
    /\ \E r \in Outcomes("qmp") :
         /\ resume_st' = [resume_st EXCEPT ![v] = qmp_step(resume_st[v], r)]
         /\ IF try_join_all(resume_st') = "pending"
            THEN UNCHANGED <<pc, op, state, phase, probe_results, snap_result, fail_at, exit>>
            ELSE AfterSnapshot(snapshot_result(pause_st, snap_st, resume_st'))
    /\ UNCHANGED <<scenario_vars, component_vars, artifact_vars, vm_order, vms, vm_vars, net_vars, run_dir, polls, cursor,
                   pause_st, snap_st, stop_st>>

\* A scenario without VMs: every join and loop is empty.
snapshot_no_vms ==
    /\ pc = "pause"
    /\ vms = {}
    /\ AfterSnapshot("ok")
    /\ UNCHANGED <<scenario_vars, component_vars, artifact_vars, vm_order, vms, vm_vars, net_vars, run_dir, polls, cursor,
                   pause_st, snap_st, resume_st, stop_st>>

----------------------------------------------------------------------------
(* The Running phase of App::run: probe ticks, reset, quit.                *)

\* maybe_check_probes -> runner.check_probes(): one tick of the scenario
\* phase over every VM, then the transition to Completed.
check_probes ==
    /\ pc = "running"
    /\ phase = "Running"
    /\ \E out \in [AllVMs -> UNION {AgentOutcomes(v, "Scenario") : v \in AllVMs}] :
         /\ \A v \in AllVMs : out[v] \in AgentOutcomes(v, "Scenario")
         /\ \A v \in AllVMs : (v \notin vms \/ probe_ids(v, "Scenario") = {})
                                 => out[v] = [kind |-> "results", passed |-> {}]
         /\ probe_results' = check_probes_phase("Scenario", out)
    /\ state' = state_after_check("Scenario", state, all_scenario_probes_passing(probe_results'))
    /\ phase' = IF state' = "Completed" THEN "Completed" ELSE phase
    /\ UNCHANGED <<scenario_vars, component_vars, artifact_vars, pc, op, vm_order, vms, vm_vars, net_vars, run_dir, polls,
                   cursor, snap_vars, stop_st, fail_at, exit>>

\* handle_confirm_reset, key `y`: runner.reset() starts by pausing every VM.
reset ==
    /\ pc = "running"
    /\ phase \in {"Running", "Completed"}
    /\ op' = "reset"
    /\ pc' = "pause"
    /\ pause_st' = Idle
    /\ snap_st' = Idle
    /\ resume_st' = Idle
    /\ snap_result' = "none"
    /\ UNCHANGED <<scenario_vars, component_vars, artifact_vars, state, phase, vm_order, vms, vm_vars, probe_results,
                   net_vars, run_dir, polls, cursor, stop_st, fail_at, exit>>

\* The user quits while the runner is in the app: initiate_shutdown takes the
\* runner and calls stop() on it.
initiate_shutdown ==
    /\ pc = "running"
    /\ phase' = "ShuttingDown"
    /\ pc' = "stop_vm"
    /\ cursor' = 1
    /\ UNCHANGED <<scenario_vars, component_vars, artifact_vars, op, state, vm_order, vms, vm_vars, probe_results,
                   net_vars, run_dir, polls, snap_vars, stop_st, fail_at, exit>>

\* The user quits (or Ctrl-C arrives) before the initialization task has
\* finished: finish_initialization aborts the task, which drops the runner at
\* the await it is suspended at.
abort_initialization ==
    /\ op = "init"
    /\ pc \in {"create", "agents", "boot", "pause", "snap", "resume"}
    /\ phase' = "ShuttingDown"
    /\ pc' = "drop_switch"
    /\ exit' = "ok"
    /\ UNCHANGED <<scenario_vars, component_vars, artifact_vars, op, state, vm_order, vms, vm_vars, probe_results,
                   net_vars, run_dir, polls, cursor, snap_vars, stop_st, fail_at>>

----------------------------------------------------------------------------
(* Teardown: ScenarioRunner::stop with QemuInstance::stop on each VM, then *)
(* cleanup; or the drop of the runner.                                     *)

\* QemuInstance::stop, first statement: QMP `quit`, its result ignored.
stop_quit ==
    /\ pc = "stop_vm"
    /\ cursor <= Len(vms_iter)
    /\ stop_st[vms_iter[cursor]] = "idle"
    /\ stop_st' = [stop_st EXCEPT ![vms_iter[cursor]] = "quit"]
    /\ UNCHANGED <<scenario_vars, component_vars, artifact_vars, pc, op, state, phase, vm_order, vms, vm_vars,
                   probe_results, net_vars, run_dir, polls, cursor, snap_vars, fail_at, exit>>

\* A faulty wait loop, for comparison: it gives up at the deadline without
\* killing the child.
stop_wait_no_kill(c, how) ==
    IF how = "exited" THEN "exited" ELSE c

\* The child after the wait loop of QemuInstance::stop: it exited by itself
\* (try_wait saw its status), or it was killed at the deadline or because its
\* status could not be read.
stop_wait_child(c, how) ==
    IF how = "exited" THEN "exited" ELSE "killed"

\* QemuInstance::stop, the wait loop on the child taken out of `process`.
stop_wait ==
    /\ pc = "stop_vm"
    /\ cursor <= Len(vms_iter)
    /\ LET v == vms_iter[cursor] IN
       /\ stop_st[v] = "quit"
       /\ stop_st' = [stop_st EXCEPT ![v] = "waited"]
       /\ IF process[v]
          THEN /\ process' = [process EXCEPT ![v] = FALSE]
               /\ \E how \in {"exited", "deadline", "wait_err"} :
                    child' = [child EXCEPT ![v] = stop_wait_child(child[v], how)]
          ELSE UNCHANGED <<process, child>>
    /\ UNCHANGED <<scenario_vars, component_vars, artifact_vars, pc, op, state, phase, vm_order, vms, vm_state, files,
                   rm_failed, probe_results, net_vars, run_dir, polls, cursor, snap_vars,
                   fail_at, exit>>

\* The paths QemuInstance::stop removes when they exist.
stop_removes == {"qmp", "serial", "actions", "pid"}

\* The paths Drop for QemuInstance removes when they exist.
drop_removes == {"pid"}

\* The ways a best-effort removal of the paths in S can fail.
RemovalFailures(S) == IF Can("rm") THEN SUBSET S ELSE {{}}

\* QemuInstance::stop, the removal loop; stop returns Ok whatever failed.
stop_remove ==
    /\ pc = "stop_vm"
    /\ cursor <= Len(vms_iter)
    /\ LET v == vms_iter[cursor] IN
       /\ stop_st[v] = "waited"
       /\ stop_st' = [stop_st EXCEPT ![v] = "done"]
       /\ \E failed \in RemovalFailures(files[v] \cap stop_removes) :
            /\ files' = [files EXCEPT ![v] = (files[v] \ stop_removes) \cup failed]
            /\ rm_failed' = [rm_failed EXCEPT ![v] = failed]
    /\ cursor' = cursor + 1
    /\ UNCHANGED <<scenario_vars, component_vars, artifact_vars, pc, op, state, phase, vm_order, vms, vm_state, process,
                   child, probe_results, net_vars, run_dir, polls, snap_vars, fail_at, exit>>

\* Drop for QemuInstance on the instances in D: kill the child if one is
\* owned, remove the pid file if it exists.  `failed` gives, per VM, the
\* removals that fail.
drop_child(v, D) ==
    IF v \in D /\ process[v] THEN "killed" ELSE child[v]

drop_files(v, D, failed) ==
    IF v \in D THEN (files[v] \ drop_removes) \cup failed[v] ELSE files[v]

DropInstances(D) ==
    /\ child' = [v \in AllVMs |-> drop_child(v, D)]
    /\ process' = [v \in AllVMs |-> IF v \in D THEN FALSE ELSE process[v]]
    /\ \E failed \in [AllVMs -> SUBSET drop_removes] :
         /\ \A v \in AllVMs : failed[v] \in RemovalFailures(IF v \in D
                                                            THEN files[v] \cap drop_removes
                                                            ELSE {})
         /\ files' = [v \in AllVMs |-> drop_files(v, D, failed)]
         /\ rm_failed' = [v \in AllVMs |->
                            IF v \in D /\ files[v] \cap drop_removes # {}
                            THEN (rm_failed[v] \ drop_removes) \cup failed[v]
                            ELSE rm_failed[v]]
    /\ vms' = vms \ D

\* ScenarioRunner::stop after the loop: vms.clear(), then the switch is taken
\* and stopped.
stop_finish ==
    /\ pc = "stop_vm"
    /\ cursor > Len(vms_iter)
    /\ DropInstances(vms)
    /\ lan_switch' = FALSE
    /\ switch_thread' = IF lan_switch THEN "stopped" ELSE switch_thread
    /\ pc' = "cleanup"
    /\ UNCHANGED <<scenario_vars, component_vars, artifact_vars, op, state, phase, vm_order, vm_state, probe_results,
                   run_dir, polls, cursor, snap_vars, stop_st, fail_at, exit>>

\* ScenarioRunner::cleanup: remove_dir_all on the run directory, retried; its
\* failure is logged by initiate_shutdown and App::run returns Ok.
cleanup ==
    /\ pc = "cleanup"
    /\ \E r \in Outcomes("rm") :
         IF r = "ok"
         THEN /\ run_dir' = FALSE
              /\ files' = [v \in AllVMs |-> {}]
              /\ disks' = {}
              /\ isos' = {}
         ELSE UNCHANGED <<run_dir, files, disks, isos>>
    /\ pc' = "exit"
    /\ exit' = "ok"
    /\ UNCHANGED <<scenario_vars, component_vars, switch_spawns, op, state, phase, vm_order, vms, vm_state, process, child,
                   rm_failed, probe_results, net_vars, polls, cursor, snap_vars, stop_st,
                   fail_at>>

\* Drop for ScenarioRunner, its body: the switch is stopped.  The fields are
\* dropped after the body has run.
drop_runner ==
    /\ pc = "drop_switch"
    /\ switch_thread' = IF lan_switch THEN "stopped" ELSE switch_thread
    /\ pc' = "drop_vms"
    /\ UNCHANGED <<scenario_vars, component_vars, artifact_vars, op, state, phase, vm_order, vms, vm_vars, probe_results,
                   lan_switch, run_dir, polls, cursor, snap_vars, stop_st, fail_at, exit>>

\* The fields of the dropped runner: every QemuInstance of the map is
\* dropped, then the LanSwitch (already stopped).
drop_runner_fields ==
    /\ pc = "drop_vms"
    /\ DropInstances(vms)
    /\ lan_switch' = FALSE
    /\ pc' = "exit"
    /\ UNCHANGED <<scenario_vars, component_vars, artifact_vars, op, state, phase, vm_order, vm_state, probe_results,
                   switch_thread, run_dir, polls, cursor, snap_vars, stop_st, fail_at, exit>>

----------------------------------------------------------------------------
(* QMP response demultiplexing: QemuInstance::read_qmp_response on one     *)
(* connection, after a request was written.                                *)

\* Bound: the lines QEMU sends on the connection.
MaxLines == 3

\* A line that is no JSON.
Garbage == {"garbage"}

\* A line QEMU sends: the top-level keys of its JSON object among those the
\* reader looks at, or Garbage.
QmpLines == (SUBSET {"event", "return", "error"}) \cup {Garbage}

\* A faulty loop body, for comparison: it does not look at the `event` key.
read_qmp_response_no_event_check(line) ==
    IF line = Garbage THEN "invalid"
    ELSE IF "return" \in line \/ "error" \in line THEN "response"
    ELSE "skip"

\* The body of the loop of read_qmp_response on one message.
read_qmp_response_step(line) ==
    IF line = Garbage THEN "invalid"
    ELSE IF "event" \in line THEN "skip"
    ELSE IF "return" \in line \/ "error" \in line THEN "response"
    ELSE "skip"

QmpIdle ==
    /\ qmp_stream = <<>>
    /\ qmp_eof = TRUE
    /\ qmp_pos = 0
    /\ qmp_reply = [kind |-> "idle", at |-> 0]

\* read_qmp_message inside the loop of read_qmp_response: one line is read;
\* at the end of the lines the read returns 0 bytes if QEMU closed the
\* connection and does not return otherwise.
read_qmp_message ==
    /\ qmp_reply.kind = "none"
    /\ IF qmp_pos < Len(qmp_stream)
       THEN /\ qmp_pos' = qmp_pos + 1
            /\ qmp_reply' =
                 CASE read_qmp_response_step(qmp_stream[qmp_pos + 1]) = "invalid" ->
                        [kind |-> "err_json", at |-> qmp_pos + 1]
                   [] read_qmp_response_step(qmp_stream[qmp_pos + 1]) = "response" ->
                        [kind |-> "ok", at |-> qmp_pos + 1]
                   [] OTHER -> qmp_reply
       ELSE /\ qmp_eof
            /\ qmp_reply' = [kind |-> "err_eof", at |-> qmp_pos]
            /\ UNCHANGED qmp_pos
    /\ UNCHANGED <<runner_vars, vm_state_vars, handshake_vars, tick_vars, wait_vars, image_vars, app_vars, address_vars, scenario_file_vars, steps_vars, recorder_vars, derive_vars, qmp_stream, qmp_eof, job_vars, agent_vars, lan_vars>>

----------------------------------------------------------------------------
(* Snapshot job polling: QemuInstance::wait_for_job after `snapshot-save`  *)
(* or `snapshot-load` was accepted.                                        *)

\* Bounds: the polls that fit before the deadline (SNAPSHOT_JOB_TIMEOUT /
\* SNAPSHOT_JOB_POLL_INTERVAL in the program), and the jobs QEMU lists.
MaxJobPolls == 3
MaxJobs == 2

\* The `error` member of a job: absent, null, a string, or an object with
\* optional `class` and `desc` strings.
JobErrors ==
    [kind : {"absent", "null", "text"}, class : {"none"}, desc : {"none"}]
      \cup [kind : {"object"}, class : {"none", "GenericError"}, desc : {"none", "failed"}]

\* No job seen yet, nothing returned yet.
NoJob == [id |-> "none", status |-> "none",
          error |-> [kind |-> "absent", class |-> "none", desc |-> "none"]]

NoResult == [kind |-> "none", msg |-> <<>>]

\* A job of the `return` array of query-jobs; "mine" is the client's job-id.
Jobs == [id : {"mine", "other"}, status : {"running", "concluded"}, error : JobErrors]

\* What a qmp_command call comes to: a response with `return`, a response
\* with `error`, an Err (connect, handshake, EOF, bad JSON), or no return at
\* all when QEMU accepts the connection and sends no line.
QmpOutcomes == {"return", "error", "failed", "silent"}

\* A faulty lookup, for comparison: the first job listed, whatever its id.
first_job(jobs) ==
    IF jobs = <<>> THEN 0 ELSE 1

\* jobs.iter().find(|job| job.id == job_id): its index, 0 if none.
find_job(jobs) ==
    IF \E i \in DOMAIN jobs : jobs[i].id = "mine"
    THEN CHOOSE i \in DOMAIN jobs :
           /\ jobs[i].id = "mine"
           /\ \A j \in 1..(i - 1) : jobs[j].id # "mine"
    ELSE 0

\* The message built from the `error` member of the concluded job.
job_error_message(error) ==
    IF error.kind = "text" THEN <<"text">>
    ELSE IF error.desc = "none" THEN <<"{json}", error.class>>
    ELSE IF error.class = "none" THEN <<error.desc>>
    ELSE <<error.class, ": ", error.desc>>

\* The value wait_for_job returns once the job was seen concluded and
\* job-dismiss was called with outcome d.
job_return(job, d) ==
    IF d = "failed" THEN [kind |-> "Err", msg |-> <<"qmp">>]
    ELSE IF d = "error" THEN [kind |-> "Err", msg |-> <<"job-dismiss error">>]
    ELSE IF job.error.kind \notin {"absent", "null"}
    THEN [kind |-> "Err", msg |-> <<"Job failed: ">> \o job_error_message(job.error)]
    ELSE [kind |-> "Ok", msg |-> <<>>]

JobIdle ==
    /\ job_pc = "idle"
    /\ job_polls = 0
    /\ job_seen = NoJob
    /\ job_dismiss = "none"
    /\ job_result = NoResult

\* One iteration of the loop of wait_for_job: query-jobs, the lookup of the
\* job, and, unless it is concluded, the deadline test and the sleep.
wait_for_job_poll ==
    /\ job_pc = "query"
    /\ \E o \in QmpOutcomes :
         CASE o = "silent" ->
                /\ job_pc' = "blocked"
                /\ UNCHANGED <<job_polls, job_seen, job_result>>
           [] o = "failed" ->
                /\ job_pc' = "done"
                /\ job_result' = [kind |-> "Err", msg |-> <<"qmp">>]
                /\ UNCHANGED <<job_polls, job_seen>>
           [] o = "error" ->
                /\ job_pc' = "done"
                /\ job_result' = [kind |-> "Err", msg |-> <<"query-jobs error">>]
                /\ UNCHANGED <<job_polls, job_seen>>
           [] o = "return" ->
                \E is_array \in BOOLEAN : \E payload \in SeqsUpTo(Jobs, MaxJobs) :
                  IF ~is_array
                  THEN /\ job_pc' = "done"
                       /\ job_result' = [kind |-> "Err", msg |-> <<"unexpected payload">>]
                       /\ UNCHANGED <<job_polls, job_seen>>
                  ELSE IF find_job(payload) # 0
                          /\ payload[find_job(payload)].status = "concluded"
                  THEN /\ job_seen' = payload[find_job(payload)]
                       /\ job_pc' = "dismiss"
                       /\ UNCHANGED <<job_polls, job_result>>
                  ELSE \* Instant::now() >= deadline, else sleep and go round
                       \E expired \in BOOLEAN :
                         /\ (job_polls + 1 >= MaxJobPolls) => expired
                         /\ job_polls' = job_polls + 1
                         /\ IF expired
                            THEN /\ job_pc' = "done"
                                 /\ job_result' = [kind |-> "Err", msg |-> <<"Timed out">>]
                            ELSE UNCHANGED <<job_pc, job_result>>
                         /\ UNCHANGED job_seen
    /\ UNCHANGED <<runner_vars, vm_state_vars, handshake_vars, tick_vars, wait_vars, image_vars, app_vars, address_vars, scenario_file_vars, steps_vars, recorder_vars, derive_vars, qmp_vars, agent_vars, lan_vars, job_dismiss>>

\* job-dismiss for the job found concluded, and the return of wait_for_job.
wait_for_job_dismiss ==
    /\ job_pc = "dismiss"
    /\ \E o \in QmpOutcomes :
         /\ job_dismiss' = IF o = "silent" THEN "blocked" ELSE o
         /\ IF o = "silent"
            THEN /\ job_pc' = "blocked"
                 /\ UNCHANGED job_result
            ELSE /\ job_pc' = "done"
                 /\ job_result' = job_return(job_seen, o)
    /\ UNCHANGED <<runner_vars, vm_state_vars, handshake_vars, tick_vars, wait_vars, image_vars, app_vars, address_vars, scenario_file_vars, steps_vars, recorder_vars, derive_vars, qmp_vars, agent_vars, lan_vars, job_polls, job_seen>>

----------------------------------------------------------------------------
(* Guest agent client: AgentConnection::send_request_expect.               *)

\* Bound: the lines the agent sends after the request.
MaxAgentLines == 3

\* The response tags, and the lines: an empty (blank) line, a response of
\* some tag, a line that does not parse as a Response.
ResponseTags == {"pong", "probe_result", "all_results", "error"}

AgentLines == ResponseTags \cup {"", "garbage"}

\* ExpectedResponse: Pong, ProbeResult, AllResults.
ExpectedResponse == {"pong", "probe_result", "all_results"}

\* A faulty loop body, for comparison: an `error` response is skipped like
\* any response of another tag.
agent_line_step_error_skipped(line, expected) ==
    IF line = "" THEN "skip"
    ELSE IF line = "garbage" THEN "invalid"
    ELSE IF line = expected THEN "match"
    ELSE "skip"

\* The loop body of send_request_expect on a line that was read.
agent_line_step(line, expected) ==
    IF line = "" THEN "skip"
    ELSE IF line = "garbage" THEN "invalid"
    ELSE IF line = "error" THEN "error"
    ELSE IF line = expected THEN "match"
    ELSE "skip"

AgentIdle ==
    /\ agent_stream = <<>>
    /\ agent_end = "eof"
    /\ agent_expected = "pong"
    /\ agent_written = 0
    /\ agent_pos = 0
    /\ agent_result = [kind |-> "idle", at |-> 0]

\* send_request_expect, up to the deadline being set: the request line is
\* written and flushed.
send_request ==
    /\ agent_result.kind = "none"
    /\ agent_written = 0
    /\ agent_pos = 0
    /\ \E r \in {"ok", "err"} :
         IF r = "ok"
         THEN /\ agent_written' = 1
              /\ UNCHANGED agent_result
         ELSE /\ agent_result' = [kind |-> "err_write", at |-> 0]
              /\ UNCHANGED agent_written
    /\ UNCHANGED <<runner_vars, vm_state_vars, handshake_vars, tick_vars, wait_vars, image_vars, app_vars, address_vars, scenario_file_vars, steps_vars, recorder_vars, derive_vars, qmp_vars, job_vars, lan_vars, agent_stream, agent_end,
                   agent_expected, agent_pos>>

\* One iteration of the read loop of send_request_expect: the deadline has
\* passed, or a line is read before it, or the stream ends.
read_response ==
    /\ agent_result.kind = "none"
    /\ agent_written = 1
    /\ \E in_time \in BOOLEAN :
         IF ~in_time \/ (agent_pos = Len(agent_stream) /\ agent_end = "silent")
         THEN /\ agent_result' = [kind |-> "err_timeout", at |-> agent_pos]
              /\ UNCHANGED agent_pos
         ELSE IF agent_pos = Len(agent_stream)
         THEN /\ agent_result' = [kind |-> IF agent_end = "eof" THEN "err_eof" ELSE "err_read",
                                  at |-> agent_pos]
              /\ UNCHANGED agent_pos
         ELSE /\ agent_pos' = agent_pos + 1
              /\ agent_result' =
                   CASE agent_line_step(agent_stream[agent_pos + 1], agent_expected) = "invalid" ->
                          [kind |-> "err_parse", at |-> agent_pos + 1]
                     [] agent_line_step(agent_stream[agent_pos + 1], agent_expected) = "error" ->
                          [kind |-> "err_response", at |-> agent_pos + 1]
                     [] agent_line_step(agent_stream[agent_pos + 1], agent_expected) = "match" ->
                          [kind |-> "ok", at |-> agent_pos + 1]
                     [] OTHER -> agent_result
    /\ UNCHANGED <<runner_vars, vm_state_vars, handshake_vars, tick_vars, wait_vars, image_vars, app_vars, address_vars, scenario_file_vars, steps_vars, recorder_vars, derive_vars, qmp_vars, job_vars, lan_vars, agent_stream, agent_end,
                   agent_expected, agent_written>>

----------------------------------------------------------------------------
(* L2 switch: the forwarding loop run_switch.                              *)

\* Bound: the peers of the switch (one per VM).
MaxPeers == 3

\* Socket addresses: the peers are 1..n, and one more address that is no peer.
Addrs == 1..(MaxPeers + 1)

\* MAC addresses, as their first byte and the remaining bytes: two unicast
\* ones, a multicast one and the broadcast address.
MACs == {<<2, 0>>, <<4, 0>>, <<1, 0>>, <<255, 255>>}

\* Datagrams: their length (below or at the Ethernet header size), and the
\* destination and source bytes.
Frames == [len : {13, 14}, dst : MACs, src : MACs]

NoFrame == [len |-> 0, dst |-> <<0, 0>>, src |-> <<0, 0>>, from |-> 0]

is_broadcast(dst) == \A i \in 1..Len(dst) : dst[i] = 255

is_multicast(dst) == dst[1] % 2 = 1

\* A faulty flood, for comparison: the sender is not left out.
flood_to_all(from) == lan_peers

\* `for peer in peers { if *peer != from { send_to(frame, peer) } }`
flood(from) == SelectSeq(lan_peers, LAMBDA peer : peer # from)

\* A faulty learning step, for comparison: the destination is learned.
learn_dst(table, frame, from) == [table EXCEPT ![frame.dst] = from]

\* `mac_table.insert(src, from)`
learn(table, frame, from) == [table EXCEPT ![frame.src] = from]

\* The sends of one loop iteration for a frame of at least 14 bytes, the
\* table being the one after the insert.
forward(table, frame, from) ==
    IF is_broadcast(frame.dst) \/ is_multicast(frame.dst)
    THEN flood(from)
    ELSE IF table[frame.dst] # 0
    THEN IF table[frame.dst] # from THEN <<table[frame.dst]>> ELSE <<>>
    ELSE flood(from)

LanIdle ==
    /\ lan_peers = <<>>
    /\ mac_table = [m \in MACs |-> 0]
    /\ lan_rx = NoFrame
    /\ lan_tx = <<>>
    /\ lan_heard = [m \in MACs |-> 0]
    /\ lan_stopped = TRUE

\* One iteration of run_switch's loop in which a datagram is received.
run_switch_recv ==
    /\ ~lan_stopped
    /\ \E frame \in Frames, from \in Addrs :
         /\ lan_rx' = [len |-> frame.len, dst |-> frame.dst, src |-> frame.src, from |-> from]
         /\ IF frame.len < 14
            THEN /\ lan_tx' = <<>>
                 /\ UNCHANGED <<mac_table, lan_heard>>
            ELSE /\ mac_table' = learn(mac_table, frame, from)
                 /\ lan_tx' = forward(mac_table', frame, from)
                 /\ lan_heard' = [lan_heard EXCEPT ![frame.src] = from]
    /\ UNCHANGED <<runner_vars, vm_state_vars, handshake_vars, tick_vars, wait_vars, image_vars, app_vars, address_vars, scenario_file_vars, steps_vars, recorder_vars, derive_vars, qmp_vars, job_vars, agent_vars, lan_peers, lan_stopped>>

\* The iteration in which the stop message is found: the loop ends.
run_switch_stop ==
    /\ ~lan_stopped
    /\ lan_stopped' = TRUE
    /\ UNCHANGED <<runner_vars, vm_state_vars, handshake_vars, tick_vars, wait_vars, image_vars, app_vars, address_vars, scenario_file_vars, steps_vars, recorder_vars, derive_vars, qmp_vars, job_vars, agent_vars, lan_peers, mac_table, lan_rx,
                   lan_tx, lan_heard>>

----------------------------------------------------------------------------
(* Action recorder: deriving lines from the raw byte streams.              *)

\* Bound: the bytes of a raw chunk.
MaxChunk == 3

\* Bytes by their value. The ones chunks are built from: ESC, CR, LF, DEL,
\* BS, TAB, space, NUL, a non-ASCII byte, and the characters l ~ [ $ @ :
Bytes == {27, 13, 10, 127, 8, 9, 32, 0, 200, 108, 126, 91, 36, 64, 58}

\* "ls\n", "\x1b[31mx\x1b[0m\n" and the prompt "u@h:~$ \n".
ExampleChunks ==
    { <<108, 115, 10>>,
      <<27, 91, 51, 49, 109, 120, 27, 91, 48, 109, 10>>,
      <<117, 64, 104, 58, 126, 36, 32, 10>> }

\* ActionLineKind
ActionLineKind == {"Input", "Output"}

is_ascii_alphabetic(b) == b \in (65..90) \cup (97..122)

is_ascii_graphic(b) == b \in 33..126

\* The whitespace a line buffer can hold: tab and space.
is_whitespace(c) == c \in {9, 32}

RECURSIVE trim_start(_)
trim_start(s) ==
    IF s # <<>> /\ is_whitespace(Head(s)) THEN trim_start(Tail(s)) ELSE s

RECURSIVE trim_end(_)
trim_end(s) ==
    IF s # <<>> /\ is_whitespace(s[Len(s)]) THEN trim_end(SubSeq(s, 1, Len(s) - 1)) ELSE s

\* str::trim
trim(s) == trim_end(trim_start(s))

\* str::rfind of a character: the last position holding it, 0 if none.
rfind(s, c) ==
    IF \E i \in 1..Len(s) : s[i] = c
    THEN CHOOSE i \in 1..Len(s) : s[i] = c /\ \A j \in (i + 1)..Len(s) : s[j] # c
    ELSE 0

contains(s, c) == \E i \in 1..Len(s) : s[i] = c

\* is_prompt_line: `$` is 36, `#` is 35, `@` is 64, `:` is 58.
is_prompt_line(line) ==
    LET trimmed == trim(line)
        pos == IF rfind(trimmed, 36) # 0 THEN rfind(trimmed, 36) ELSE rfind(trimmed, 35)
        rest == SubSeq(trimmed, pos + 1, Len(trimmed))
        prefix == SubSeq(trimmed, 1, pos - 1)
    IN  IF trimmed = <<>> THEN FALSE
        ELSE IF trimmed = <<36>> \/ trimmed = <<35>> THEN TRUE
        ELSE IF pos = 0 THEN FALSE
        ELSE IF rest # <<>> /\ Head(rest) # 32 THEN FALSE
        ELSE contains(prefix, 64) /\ contains(prefix, 58)

\* The state of one direction of a LineCapture, with the lines sent so far.
NoCapture == [line |-> <<>>, escape |-> FALSE, out |-> <<>>]

\* A faulty loop body, for comparison: any printable byte ends an escape
\* sequence.
derive_byte_escape_ends_early(st, b, kind) ==
    IF st.escape
    THEN [st EXCEPT !.escape = ~is_ascii_graphic(b)]
    ELSE IF b = 27 THEN [st EXCEPT !.escape = TRUE]
    ELSE IF b \in {13, 10}
    THEN [st EXCEPT !.line = <<>>,
                    !.out = IF trim(st.line) # <<>>
                               /\ (kind = "Output" => ~is_prompt_line(trim(st.line)))
                            THEN Append(st.out, trim(st.line))
                            ELSE st.out]
    ELSE IF b \in {127, 8}
    THEN [st EXCEPT !.line = IF st.line = <<>> THEN <<>>
                             ELSE SubSeq(st.line, 1, Len(st.line) - 1)]
    ELSE IF b = 9 \/ is_ascii_graphic(b) \/ b = 32
    THEN [st EXCEPT !.line = Append(st.line, b)]
    ELSE st

\* The body of the `for &b in chunk` loop of derive_lines_from_input and
\* derive_lines_from_output, which differ in the prompt test only.
derive_byte(st, b, kind) ==
    IF st.escape
    THEN [st EXCEPT !.escape = ~(is_ascii_alphabetic(b) \/ b = 126)]
    ELSE IF b = 27 THEN [st EXCEPT !.escape = TRUE]
    ELSE IF b \in {13, 10}
    THEN [st EXCEPT !.line = <<>>,
                    !.out = IF trim(st.line) # <<>>
                               /\ (kind = "Output" => ~is_prompt_line(trim(st.line)))
                            THEN Append(st.out, trim(st.line))
                            ELSE st.out]
    ELSE IF b \in {127, 8}
    THEN [st EXCEPT !.line = IF st.line = <<>> THEN <<>>
                             ELSE SubSeq(st.line, 1, Len(st.line) - 1)]
    ELSE IF b = 9 \/ is_ascii_graphic(b) \/ b = 32
    THEN [st EXCEPT !.line = Append(st.line, b)]
    ELSE st

DeriveIdle ==
    /\ drv_kind = "Input"
    /\ drv_chunk = <<>>
    /\ drv_pos = 0
    /\ drv_st = NoCapture
    /\ drv_cuts = <<>>

\* One iteration of the loop over the bytes of the chunk.
derive_lines_step ==
    /\ drv_pos < Len(drv_chunk)
    /\ drv_pos' = drv_pos + 1
    /\ drv_st' = derive_byte(drv_st, drv_chunk[drv_pos + 1], drv_kind)
    /\ UNCHANGED <<runner_vars, vm_state_vars, handshake_vars, tick_vars, wait_vars, image_vars, app_vars, address_vars, scenario_file_vars, steps_vars, recorder_vars, qmp_vars, job_vars, agent_vars, lan_vars, drv_kind, drv_chunk, drv_cuts>>

----------------------------------------------------------------------------
(* Action recorder: one action-stream connection and the guest agent       *)
(* writing to it.                                                          *)

\* Bound: the steps the guest agent takes on one connection.
MaxAgentSteps == 6

\* What the user types and what the shell prints in an interactive
\* session: chunks over `l` and a line break.
InputChunks == SeqsUpTo({108, 13}, 2) \ {<<>>}

OutputChunks == SeqsUpTo({108, 10}, 2) \ {<<>>}

\* The command of a command session and the lines it prints.
CommandLines == {<<108>>}

\* LineCapture::default()
NewLineCapture ==
    [input_line |-> <<>>, input_escape |-> FALSE,
     output_line |-> <<>>, output_escape |-> FALSE, prefer_raw |-> FALSE]

\* The line buffers of proxy_pty_session in the guest.
NewPtyBuffers == [line |-> <<>>, input_escape |-> FALSE,
                  output_line |-> <<>>, output_escape |-> FALSE]

\* derive_lines_from_input / derive_lines_from_output on a whole chunk.
RECURSIVE derive_lines(_, _, _)
derive_lines(chunk, st, kind) ==
    IF chunk = <<>> THEN st
    ELSE derive_lines(Tail(chunk), derive_byte(st, Head(chunk), kind), kind)

\* A faulty derivation, for comparison: every chunk starts outside an
\* escape sequence.
derive_lines_from_input_fresh(chunk, line, in_escape) ==
    derive_lines(chunk, [line |-> line, escape |-> FALSE, out |-> <<>>], "Input")

derive_lines_from_input(chunk, line, in_escape) ==
    derive_lines(chunk, [line |-> line, escape |-> in_escape, out |-> <<>>], "Input")

derive_lines_from_output(chunk, line, in_escape) ==
    derive_lines(chunk, [line |-> line, escape |-> in_escape, out |-> <<>>], "Output")

\* handle_action_event on an ssh_raw_input or ssh_raw_output event that
\* carries the next bytes of the stream: the line and the escape flag of
\* the LineCapture go in and come out, the lines go to tx_lines.
handle_raw_event ==
    /\ drv_pos < Len(drv_chunk)
    /\ \E n \in 1..(Len(drv_chunk) - drv_pos) :
         LET data == SubSeq(drv_chunk, drv_pos + 1, drv_pos + n)
             d == IF drv_kind = "Input"
                  THEN derive_lines_from_input(data, drv_st.line, drv_st.escape)
                  ELSE derive_lines_from_output(data, drv_st.line, drv_st.escape)
         IN  /\ drv_st' = [line |-> d.line, escape |-> d.escape,
                           out |-> drv_st.out \o d.out]
             /\ drv_pos' = drv_pos + n
             /\ drv_cuts' = Append(drv_cuts, n)
    /\ UNCHANGED <<runner_vars, vm_state_vars, handshake_vars, tick_vars, wait_vars, image_vars, app_vars, address_vars, scenario_file_vars, steps_vars, recorder_vars, qmp_vars, job_vars, agent_vars, lan_vars, drv_kind, drv_chunk>>

\* An ActionEvent on the wire; `both` marks an ssh_line whose bytes the
\* agent also sent as raw input.
Event(type, data, both) == [type |-> type, data |-> data, both |-> both]

\* An ActionLineEvent given to tx_lines, with how it came about.
LineEvent(kind, line, via, both) ==
    [kind |-> kind, line |-> line, via |-> via, both |-> both, raw_seen |-> rec_raw_seen]

RECURSIVE LineEvents(_, _)
LineEvents(kind, lines) ==
    IF lines = <<>> THEN <<>>
    ELSE <<LineEvent(kind, Head(lines), "raw", FALSE)>> \o LineEvents(kind, Tail(lines))

\* A faulty test, for comparison: line events are forwarded whatever was seen.
forwards_always(st) == TRUE

\* `if !line_state.prefer_raw`
forwards_line_events(st) == ~st.prefer_raw

\* LineCapture::flush_output
flush_output(st) ==
    IF trim(st.output_line) # <<>> /\ ~is_prompt_line(trim(st.output_line))
    THEN <<LineEvent("Output", trim(st.output_line), "raw", FALSE)>>
    ELSE <<>>

\* handle_action_event: the LineCapture, the cast writer and the lines sent.
handle_action_event(ev, st, writer) ==
    CASE ev.type = "ssh_cast_start" ->
           [st |-> [NewLineCapture EXCEPT !.prefer_raw = TRUE], writer |-> TRUE, sent |-> <<>>]
      [] ev.type = "ssh_session_start" ->
           [st |-> [NewLineCapture EXCEPT !.prefer_raw = st.prefer_raw],
            writer |-> writer, sent |-> <<>>]
      [] ev.type = "ssh_raw_input" ->
           LET d == derive_lines_from_input(ev.data, st.input_line, st.input_escape)
           IN  [st |-> [st EXCEPT !.prefer_raw = TRUE, !.input_line = d.line,
                                  !.input_escape = d.escape],
                writer |-> writer, sent |-> LineEvents("Input", d.out)]
      [] ev.type = "ssh_raw_output" ->
           LET d == derive_lines_from_output(ev.data, st.output_line, st.output_escape)
           IN  [st |-> [st EXCEPT !.prefer_raw = TRUE, !.output_line = d.line,
                                  !.output_escape = d.escape],
                writer |-> writer, sent |-> LineEvents("Output", d.out)]
      [] ev.type = "ssh_line" ->
           [st |-> st, writer |-> writer,
            sent |-> IF forwards_line_events(st)
                     THEN <<LineEvent("Input", ev.data, "event", ev.both)>> ELSE <<>>]
      [] ev.type = "ssh_output" ->
           [st |-> st, writer |-> writer,
            sent |-> IF forwards_line_events(st)
                     THEN <<LineEvent("Output", ev.data, "event", ev.both)>> ELSE <<>>]
      [] ev.type = "ssh_session_end" ->
           [st |-> [st EXCEPT !.output_line = <<>>], writer |-> FALSE, sent |-> flush_output(st)]
      [] OTHER -> [st |-> st, writer |-> writer, sent |-> <<>>]

RECURSIVE Events(_, _, _)
Events(type, lines, both) ==
    IF lines = <<>> THEN <<>>
    ELSE <<Event(type, Head(lines), both)>> \o Events(type, Tail(lines), both)

RecorderIdle ==
    /\ rec_pc = "off"
    /\ rec_steps = 0
    /\ rec_pty = NewPtyBuffers
    /\ rec_wire = <<>>
    /\ line_state = NewLineCapture
    /\ cast_writer = FALSE
    /\ rec_raw_seen = FALSE
    /\ rec_both = <<>>
    /\ tx_lines = <<>>
    /\ rec_expected = <<>>

\* The lines of one kind completed by a step of an interactive session.
RECURSIVE Completed(_, _)
Completed(kind, lines) ==
    IF lines = <<>> THEN <<>>
    ELSE <<[kind |-> kind, line |-> Head(lines)]>> \o Completed(kind, Tail(lines))

\* A step of the guest: the events it writes, the session position after
\* it, the pty buffers and the lines of an interactive session it completed.
agent_steps(events, next_pc, pty, completed) ==
    /\ rec_wire = <<>>
    /\ rec_steps < MaxAgentSteps
    /\ rec_steps' = rec_steps + 1
    /\ rec_expected' = rec_expected \o completed
    /\ rec_wire' = events
    /\ rec_pc' = next_pc
    /\ rec_pty' = pty
    /\ UNCHANGED <<runner_vars, vm_state_vars, handshake_vars, tick_vars, wait_vars, image_vars, app_vars, address_vars, scenario_file_vars, steps_vars, qmp_vars, job_vars, agent_vars, lan_vars, derive_vars, line_state, cast_writer, rec_raw_seen, rec_both, tx_lines>>

\* Guest, record_command up to running the command.
record_command ==
    /\ rec_pc = "idle"
    /\ \E command \in CommandLines \cup {<<>>} :
         agent_steps(<<Event("ssh_session_start", <<>>, FALSE)>>
                       \o (IF command # <<>> THEN <<Event("ssh_line", command, FALSE)>> ELSE <<>>),
                     "command", rec_pty, <<>>)

\* Guest, record_command after the command ran: its output lines and the
\* session end.
record_command_output ==
    /\ rec_pc = "command"
    /\ \E lines \in SeqsUpTo(CommandLines, 1) :
         agent_steps(Events("ssh_output", lines, FALSE)
                       \o <<Event("ssh_session_end", <<>>, FALSE)>>,
                     "idle", rec_pty, <<>>)

\* Guest, record_ssh: the interactive session starts.
send_session_start ==
    /\ rec_pc = "idle"
    /\ agent_steps(<<Event("ssh_session_start", <<>>, FALSE)>>, "interactive", NewPtyBuffers, <<>>)

\* Guest, proxy_pty_session: the user's bytes are sent raw and the lines
\* derived from them as ssh_line events.
proxy_pty_input ==
    /\ rec_pc = "interactive"
    /\ \E chunk \in InputChunks :
         LET d == derive_lines_from_input(chunk, rec_pty.line, rec_pty.input_escape)
         IN  agent_steps(<<Event("ssh_raw_input", chunk, FALSE)>>
                           \o Events("ssh_line", d.out, TRUE),
                         "interactive",
                         [rec_pty EXCEPT !.line = d.line, !.input_escape = d.escape],
                         Completed("Input", d.out))

\* Guest, proxy_pty_session: the lines derived from the shell's output are
\* sent as ssh_output events.
proxy_pty_output ==
    /\ rec_pc = "interactive"
    /\ \E chunk \in OutputChunks :
         LET d == derive_lines_from_output(chunk, rec_pty.output_line, rec_pty.output_escape)
         IN  agent_steps(Events("ssh_output", d.out, FALSE), "interactive",
                         [rec_pty EXCEPT !.output_line = d.line, !.output_escape = d.escape],
                         Completed("Output", d.out))

\* Guest, the end of proxy_pty_session and send_session_end.
send_session_end ==
    /\ rec_pc = "interactive"
    /\ agent_steps((IF trim(rec_pty.output_line) # <<>> /\ ~is_prompt_line(trim(rec_pty.output_line))
                    THEN <<Event("ssh_output", trim(rec_pty.output_line), FALSE)>> ELSE <<>>)
                     \o <<Event("ssh_session_end", <<>>, FALSE)>>,
                   "idle", NewPtyBuffers,
                   IF trim(rec_pty.output_line) # <<>> /\ ~is_prompt_line(trim(rec_pty.output_line))
                   THEN Completed("Output", <<trim(rec_pty.output_line)>>) ELSE <<>>)

\* Host, one iteration of the read loop of start_vm_actions_task: the next
\* event is read and handled.
read_action_event ==
    /\ rec_wire # <<>>
    /\ LET ev == Head(rec_wire)
           r == handle_action_event(ev, line_state, cast_writer)
       IN  /\ rec_wire' = Tail(rec_wire)
           /\ line_state' = r.st
           /\ cast_writer' = r.writer
           /\ tx_lines' = tx_lines \o r.sent
           /\ rec_raw_seen' = (rec_raw_seen \/ ev.type \in {"ssh_raw_input", "ssh_raw_output"})
           /\ rec_both' = IF ev.type = "ssh_line" /\ ev.both THEN Append(rec_both, ev.data)
                          ELSE rec_both
    /\ UNCHANGED <<runner_vars, vm_state_vars, handshake_vars, tick_vars, wait_vars, image_vars, app_vars, address_vars, scenario_file_vars, steps_vars, qmp_vars, job_vars, agent_vars, lan_vars, derive_vars, rec_pc, rec_steps, rec_pty, rec_expected>>

----------------------------------------------------------------------------
(* VM steps: apply_vm_steps_to_cloud_init.                                 *)

\* Bounds: the steps of a VM, the actions of a step, the parts of a name.
MaxSteps == 2

MaxActions == 2

MaxNameParts == 3

\* Strings are sequences of character codes.
str_break == <<98, 114, 101, 97, 107>>

\* The parts step names are built from: "break", "Break", `-`, `_`, "x"
\* and a space.
NameParts == {str_break, <<66, 114, 101, 97, 107>>, <<45>>, <<95>>, <<120>>, <<32>>}

RECURSIVE concat(_)
concat(parts) == IF parts = <<>> THEN <<>> ELSE Head(parts) \o concat(Tail(parts))

\* "breakage", "safe-break-check" and "rebuild".
ExampleNames ==
    { str_break \o <<97, 103, 101>>,
      <<115, 97, 102, 101, 45>> \o str_break \o <<45, 99, 104, 101, 99, 107>>,
      <<114, 101, 98, 117, 105, 108, 100>> }

StepNames == {concat(p) : p \in SeqsUpTo(NameParts, MaxNameParts)} \cup ExampleNames

\* Fewer names where the actions vary: "break-x" and "x x".
FewNames == {str_break \o <<45, 120>>, <<120, 32, 120>>}

\* One VmAction of each kind.
VmActions ==
    {"file_delete", "file_write", "file_replace", "systemctl", "command",
     "k8s_apply", "k8s_namespace", "k8s_deployment", "k8s_service"}

to_ascii_lowercase(c) == IF c \in 65..90 THEN c + 32 ELSE c

to_lowercase(s) == [i \in 1..Len(s) |-> to_ascii_lowercase(s[i])]

starts_with(s, pat) == Len(s) >= Len(pat) /\ SubSeq(s, 1, Len(pat)) = pat

contains_str(s, pat) ==
    \E i \in 1..(Len(s) - Len(pat) + 1) : SubSeq(s, i, i + Len(pat) - 1) = pat

is_ascii_alphanumeric(c) == c \in (48..57) \cup (65..90) \cup (97..122)

\* slugify: the loop over the characters, the trailing dashes, the default.
RECURSIVE slugify_chars(_, _, _)
slugify_chars(input, out, last_dash) ==
    IF input = <<>> THEN out
    ELSE IF is_ascii_alphanumeric(Head(input))
    THEN slugify_chars(Tail(input), Append(out, to_ascii_lowercase(Head(input))), FALSE)
    ELSE IF Head(input) \in {45, 95}
    THEN slugify_chars(Tail(input), Append(out, Head(input)), FALSE)
    ELSE IF out # <<>> /\ ~last_dash
    THEN slugify_chars(Tail(input), Append(out, 45), TRUE)
    ELSE slugify_chars(Tail(input), out, last_dash)

RECURSIVE pop_dashes(_)
pop_dashes(out) ==
    IF out # <<>> /\ out[Len(out)] = 45 THEN pop_dashes(SubSeq(out, 1, Len(out) - 1)) ELSE out

slugify(input) ==
    LET out == pop_dashes(slugify_chars(input, <<>>, FALSE))
    IN  IF out = <<>> THEN <<115, 116, 101, 112>> ELSE out

\* A faulty classification, for comparison: every step is visible.
never_hidden(step) == FALSE

\* is_hidden_step
is_hidden_step(step) ==
    LET name == to_lowercase(step.name)
    IN  \/ starts_with(name, str_break)
        \/ contains_str(name, str_break \o <<45>>)
        \/ contains_str(name, str_break \o <<95>>)

\* A line of a script or of runcmd: its fixed text and what is formatted
\* into it.
Line(text, vm_slug, step_slug, idx) ==
    [text |-> text, vm |-> vm_slug, step |-> step_slug, idx |-> idx]

\* The path of a step's script.
script_path(vm_slug, step_slug, hidden) ==
    Line(IF hidden THEN "/run/intar-step-" ELSE "/usr/local/bin/intar-step-",
         vm_slug, step_slug, 0)

render_step_header(vm_slug, step_slug, hidden) ==
    <<Line("#!/usr/bin/env bash", <<>>, <<>>, 0), Line("set -euo pipefail", <<>>, <<>>, 0)>>
      \o (IF hidden
          THEN <<Line("trap 'rm -f -- \"$0\"' EXIT", <<>>, <<>>, 0),
                 Line("exec >/dev/null 2>&1", <<>>, <<>>, 0)>>
          ELSE <<Line("LOG_DIR=/var/log/intar", <<>>, <<>>, 0),
                 Line("mkdir -p \"$LOG_DIR\"", <<>>, <<>>, 0),
                 Line("exec >\"$LOG_DIR/step-.log\" 2>&1", vm_slug, step_slug, 0),
                 Line("echo \"[intar] step starting\"", vm_slug, step_slug, 0)>>)

render_step_footer(vm_slug, step_slug, hidden) ==
    IF hidden THEN <<>>
    ELSE <<Line("echo \"[intar] step complete\"", vm_slug, step_slug, 0)>>

render_k8s_apply(step_slug, idx, manifest) ==
    <<Line("if [ -z \"${KUBECONFIG:-}\" ]; then ... fi", <<>>, <<>>, 0),
      Line("cat <<'INTAR_K8S_MANIFEST_' | kubectl apply -f -", <<>>, step_slug, idx),
      Line(manifest, <<>>, <<>>, 0),
      Line("INTAR_K8S_MANIFEST_", <<>>, step_slug, idx)>>

\* render_action: the lines one action adds to the script.
render_action(step_slug, idx, action) ==
    CASE action = "file_delete" -> <<Line("rm -f -- 'path'", <<>>, <<>>, 0)>>
      [] action = "file_write" ->
           <<Line("install -d -m 0755 -- \"$(dirname -- 'path')\"", <<>>, <<>>, 0),
             Line("cat <<'INTAR_EOF_' > 'path'", <<>>, step_slug, idx),
             Line("content", <<>>, <<>>, 0),
             Line("INTAR_EOF_", <<>>, step_slug, idx)>>
      [] action = "file_replace" ->
           <<Line("python3 - <<'PY'", <<>>, <<>>, 0),
             Line("new = data.replace(pattern, replacement)", <<>>, <<>>, 0),
             Line("PY", <<>>, <<>>, 0)>>
      [] action = "systemctl" -> <<Line("systemctl stop 'unit'", <<>>, <<>>, 0)>>
      [] action = "command" -> <<Line("", <<>>, <<>>, 0), Line("cmd", <<>>, <<>>, 0)>>
      [] action = "k8s_apply" -> render_k8s_apply(step_slug, idx, "manifest")
      [] action = "k8s_namespace" -> render_k8s_apply(step_slug, idx, "kind: Namespace")
      [] action = "k8s_deployment" -> render_k8s_apply(step_slug, idx, "kind: Deployment")
      [] action = "k8s_service" -> render_k8s_apply(step_slug, idx, "kind: Service")

\* The loop of render_step_script over the actions, from the one at idx on
\* (idx counts from 0).
RECURSIVE render_actions(_, _, _)
render_actions(step_slug, idx, actions) ==
    IF actions = <<>> THEN <<>>
    ELSE render_action(step_slug, idx, Head(actions))
           \o render_actions(step_slug, idx + 1, Tail(actions))

\* A faulty renderer, for comparison: the actions are rendered last first.
RECURSIVE render_actions_reversed(_, _, _)
render_actions_reversed(step_slug, idx, actions) ==
    IF actions = <<>> THEN <<>>
    ELSE render_actions_reversed(step_slug, idx + 1, Tail(actions))
           \o render_action(step_slug, idx, Head(actions))

render_step_body_reversed(step_slug, actions) == render_actions_reversed(step_slug, 0, actions)

\* The loop of render_step_script with its enumerate().
render_step_body(step_slug, actions) == render_actions(step_slug, 0, actions)

render_step_script(vm_slug, step_slug, step, hidden) ==
    render_step_header(vm_slug, step_slug, hidden)
      \o render_step_body(step_slug, step.actions)
      \o render_step_footer(vm_slug, step_slug, hidden)

NewLine == Line("\n", <<>>, <<>>, 0)

\* append_runcmd_line
append_runcmd_line(runcmd, line) ==
    (IF runcmd # <<>> /\ runcmd[Len(runcmd)] # NewLine THEN Append(runcmd, NewLine) ELSE runcmd)
      \o <<line, NewLine>>

\* The runcmd line that runs a step's script.
invocation(path, hidden) ==
    IF hidden THEN [path EXCEPT !.text = "bash " \o path.text]
    ELSE [path EXCEPT !.text = "cloud-init-per once intar-step- " \o path.text]

\* The runcmd a cloud-init configuration may hold before the steps: none,
\* or a line with or without its newline.
PreRuncmds ==
    { [some |-> FALSE, text |-> <<>>],
      [some |-> TRUE, text |-> <<Line("echo pre", <<>>, <<>>, 0)>>],
      [some |-> TRUE, text |-> <<Line("echo pre", <<>>, <<>>, 0), NewLine>>] }

StepsIdle ==
    /\ stp_pc = "off"
    /\ stp_vm = <<>>
    /\ stp_steps = <<>>
    /\ stp_pre = [some |-> FALSE, text |-> <<>>]
    /\ stp_config = [runcmd |-> [some |-> FALSE, text |-> <<>>], write_files |-> <<>>]
    /\ stp_runcmd = <<>>
    /\ stp_i = 0

\* apply_vm_steps_to_cloud_init up to its loop.
apply_vm_steps_begin ==
    /\ stp_pc = "start"
    /\ IF stp_steps = <<>>
       THEN /\ stp_pc' = "done"
            /\ UNCHANGED stp_runcmd
       ELSE /\ stp_pc' = "loop"
            /\ stp_runcmd' = stp_config.runcmd.text
    /\ UNCHANGED <<runner_vars, vm_state_vars, handshake_vars, tick_vars, wait_vars, image_vars, app_vars, address_vars, scenario_file_vars, qmp_vars, job_vars, agent_vars, lan_vars, derive_vars, recorder_vars, stp_vm, stp_steps, stp_pre, stp_config, stp_i>>

\* One iteration of the loop over the steps.
apply_vm_step ==
    /\ stp_pc = "loop"
    /\ stp_i < Len(stp_steps)
    /\ LET step == stp_steps[stp_i + 1]
           vm_slug == slugify(stp_vm)
           step_slug == slugify(step.name)
           hidden == is_hidden_step(step)
           path == script_path(vm_slug, step_slug, hidden)
       IN  /\ stp_config' =
                [stp_config EXCEPT !.write_files =
                    Append(@, [path |-> path,
                               content |-> render_step_script(vm_slug, step_slug, step, hidden),
                               permissions |-> "0755"])]
           /\ stp_runcmd' = append_runcmd_line(stp_runcmd, invocation(path, hidden))
    /\ stp_i' = stp_i + 1
    /\ UNCHANGED <<runner_vars, vm_state_vars, handshake_vars, tick_vars, wait_vars, image_vars, app_vars, address_vars, scenario_file_vars, qmp_vars, job_vars, agent_vars, lan_vars, derive_vars, recorder_vars, stp_pc, stp_vm, stp_steps, stp_pre>>

\* After the loop: `config.runcmd = Some(runcmd)`.
apply_vm_steps_end ==
    /\ stp_pc = "loop"
    /\ stp_i = Len(stp_steps)
    /\ stp_pc' = "done"
    /\ stp_config' = [stp_config EXCEPT !.runcmd = [some |-> TRUE, text |-> stp_runcmd]]
    /\ UNCHANGED <<runner_vars, vm_state_vars, handshake_vars, tick_vars, wait_vars, image_vars, app_vars, address_vars, scenario_file_vars, qmp_vars, job_vars, agent_vars, lan_vars, derive_vars, recorder_vars, stp_vm, stp_steps, stp_pre, stp_runcmd, stp_i>>

----------------------------------------------------------------------------
(* Scenario files: Scenario::parse and Scenario::validate.                 *)

\* Bound: the image, probe and vm blocks of a scenario file.
MaxBlocks == 3

\* The blocks a scenario file is made of: an image, a probe, VMs of two
\* names referring to images and probes that may not be defined, and a
\* block parse_image, parse_probe or parse_vm rejects.
Blocks ==
    { [kind |-> "image", name |-> "ubuntu", image |-> "", probes |-> <<>>, ok |-> TRUE],
      [kind |-> "probe", name |-> "p", image |-> "", probes |-> <<>>, ok |-> TRUE] }
    \cup [kind : {"vm"}, name : {"a", "b"}, image : {"ubuntu", "debian"},
          probes : SeqsUpTo({"p", "q"}, 1), ok : {TRUE}]
    \cup { [kind |-> "vm", name |-> "a", image |-> "", probes |-> <<>>, ok |-> FALSE] }

EmptyScenario == [images |-> {}, probes |-> {}, vms |-> <<>>]

\* The first error Scenario::validate meets, "ok" if none: per VM in order,
\* the image, then the probes.
RECURSIVE validate_vms(_, _)
validate_vms(scn, rest) ==
    IF rest = <<>> THEN "ok"
    ELSE IF Head(rest).image \notin scn.images THEN "ImageNotFound"
    ELSE IF \E i \in 1..Len(Head(rest).probes) : Head(rest).probes[i] \notin scn.probes
    THEN "ProbeNotFound"
    ELSE validate_vms(scn, Tail(rest))

validate(scn) == validate_vms(scn, scn.vms)

ScenarioIdle ==
    /\ scn_blocks = <<>>
    /\ scn_pos = 0
    /\ scenario = EmptyScenario
    /\ scn_result = "off"

\* Scenario::parse, one iteration of the loop over the inner blocks.
parse_block ==
    /\ scn_result = "none"
    /\ scn_pos < Len(scn_blocks)
    /\ scn_pos' = scn_pos + 1
    /\ LET block == scn_blocks[scn_pos + 1]
       IN  IF ~block.ok
           THEN /\ scn_result' = "InvalidScenario"
                /\ UNCHANGED scenario
           ELSE /\ UNCHANGED scn_result
                /\ scenario' =
                     CASE block.kind = "image" ->
                            [scenario EXCEPT !.images = @ \cup {block.name}]
                       [] block.kind = "probe" ->
                            [scenario EXCEPT !.probes = @ \cup {block.name}]
                       [] block.kind = "vm" ->
                            [scenario EXCEPT !.vms =
                               Append(@, [name |-> block.name, image |-> block.image,
                                          probes |-> block.probes])]
    /\ UNCHANGED <<runner_vars, vm_state_vars, handshake_vars, tick_vars, wait_vars, image_vars, app_vars, address_vars, qmp_vars, job_vars, agent_vars, lan_vars, derive_vars, recorder_vars, steps_vars, scn_blocks>>

\* Scenario::validate on the parsed scenario.
validate_scenario ==
    /\ scn_result = "none"
    /\ scn_pos = Len(scn_blocks)
    /\ scn_result' = validate(scenario)
    /\ UNCHANGED <<runner_vars, vm_state_vars, handshake_vars, tick_vars, wait_vars, image_vars, app_vars, address_vars, qmp_vars, job_vars, agent_vars, lan_vars, derive_vars, recorder_vars, steps_vars, scn_blocks, scn_pos, scenario>>

----------------------------------------------------------------------------
(* Addresses: assign_vm_addresses, generate_macs and mgmt_ip.              *)

\* The sizes of scenario considered: small ones and the ones around each
\* limit of the address arithmetic.
VmCounts == {0, 1, 2, 145, 146, 155, 156, 192, 193}

\* u8::checked_add and u32::checked_add: -1 stands for None.
checked_add_u8(a, b) == IF a + b > 255 THEN -1 ELSE a + b

\* The sum exceeds u32::MAX exactly when a quarter of it reaches 2^30.
checked_add_u32(a, b) ==
    IF (a \div 4) + (b \div 4) + (((a % 4) + (b % 4)) \div 4) >= 1073741824
    THEN -1 ELSE a + b

\* assign_vm_addresses for the VM at idx: the last octet of its shared-LAN
\* address, -1 for the error.
lan_octet(idx) ==
    IF checked_add_u32(10, idx) # -1 /\ checked_add_u32(10, idx) <= 254
    THEN checked_add_u32(10, idx) ELSE -1

\* mgmt_ip: the last octet of 10.0.2.x, -1 for the error.
mgmt_ip(vm_index) ==
    IF checked_add_u32(100, vm_index) # -1 /\ checked_add_u32(100, vm_index) <= 254
    THEN checked_add_u32(100, vm_index) ELSE -1

\* generate_macs: the last bytes of the primary and of the LAN MAC, -1 for
\* the error.
generate_macs(idx) ==
    IF idx > 255 \/ checked_add_u8(16, idx) = -1 \/ checked_add_u8(64, idx) = -1
    THEN [primary |-> -1, lan |-> -1]
    ELSE [primary |-> checked_add_u8(16, idx), lan |-> checked_add_u8(64, idx)]

NoAddress == [primary |-> 0, lan |-> 0, mgmt |-> 0]

AddressIdle ==
    /\ addr_vms = 0
    /\ addr_pc = "off"
    /\ addr_created = 0
    /\ addr_last = NoAddress
    /\ addr_result = "none"

\* ScenarioRunner::new: assign_vm_addresses over the VMs of the scenario.
assign_vm_addresses ==
    /\ addr_pc = "new"
    /\ IF \E idx \in 0..(addr_vms - 1) : lan_octet(idx) = -1
       THEN /\ addr_pc' = "done"
            /\ addr_result' = "err_lan"
       ELSE /\ addr_pc' = IF addr_vms = 0 THEN "done" ELSE "create"
            /\ addr_result' = IF addr_vms = 0 THEN "ok" ELSE "none"
    /\ UNCHANGED <<runner_vars, vm_state_vars, handshake_vars, tick_vars, wait_vars, image_vars, app_vars, qmp_vars, job_vars, agent_vars, lan_vars, derive_vars, recorder_vars, steps_vars, scenario_file_vars, addr_vms, addr_created, addr_last>>

\* create_vm, the addresses of the next VM: generate_macs and mgmt_ip at
\* the index vm_order.len().
create_vm_addresses ==
    /\ addr_pc = "create"
    /\ LET vm_index == addr_created
           macs == generate_macs(vm_index)
           ip == mgmt_ip(vm_index)
       IN  IF macs.primary = -1
           THEN /\ addr_pc' = "done"
                /\ addr_result' = "err_macs"
                /\ UNCHANGED <<addr_created, addr_last>>
           ELSE IF ip = -1
           THEN /\ addr_pc' = "done"
                /\ addr_result' = "err_mgmt"
                /\ UNCHANGED <<addr_created, addr_last>>
           ELSE /\ addr_created' = addr_created + 1
                /\ addr_last' = [primary |-> macs.primary, lan |-> macs.lan, mgmt |-> ip]
                /\ addr_pc' = IF addr_created + 1 = addr_vms THEN "done" ELSE "create"
                /\ addr_result' = IF addr_created + 1 = addr_vms THEN "ok" ELSE "none"
    /\ UNCHANGED <<runner_vars, vm_state_vars, handshake_vars, tick_vars, wait_vars, image_vars, app_vars, qmp_vars, job_vars, agent_vars, lan_vars, derive_vars, recorder_vars, steps_vars, scenario_file_vars, addr_vms>>

----------------------------------------------------------------------------
(* App::run: the event loop, the initialization task and the shutdown.     *)

\* What one poll_events reads: no key, a quit key, or another key.
Keys == {"none", "quit", "other"}

\* How stop() and cleanup() end when initiate_shutdown calls them; both
\* failures are only logged.
CallResults == {"ok", "err"}

AppIdle ==
    /\ app_pc = "off"
    /\ app_phase = "off"
    /\ progress_rx = <<>>
    /\ init_stage = 0
    /\ init_task = "off"
    /\ init_handle = FALSE
    /\ init_result = "none"
    /\ app_runner = FALSE
    /\ shutdown_signal = FALSE
    /\ should_quit = FALSE
    /\ runner_stop = "none"
    /\ runner_cleanup = "none"
    /\ app_exit = "none"

\* JoinHandle::is_finished on the initialization task.
is_finished == init_task \in {"ok", "err"}

\* initiate_shutdown: the runner taken out of the app, if there is one, is
\* stopped and cleaned up.
shutdown_runner(stop_r, cleanup_r) ==
    /\ app_phase' = "ShuttingDown"
    /\ IF app_runner
       THEN /\ app_runner' = FALSE
            /\ runner_stop' = stop_r
            /\ runner_cleanup' = cleanup_r
       ELSE UNCHANGED <<app_runner, runner_stop, runner_cleanup>>

\* The phases start_initialization announces on the progress channel, in
\* order: DownloadStart, VmStart, BootingVms, Ready.
Stages == <<"DownloadingImages", "CreatingVms", "BootingVms", "Running">>

\* start_initialization sends the update of its next stage but the last.
start_initialization_progress ==
    /\ app_pc \notin {"off", "returned"}
    /\ init_task = "running"
    /\ init_stage + 1 < Len(Stages)
    /\ init_stage' = init_stage + 1
    /\ progress_rx' = Append(progress_rx, Stages[init_stage + 1])
    /\ UNCHANGED <<runner_vars, vm_state_vars, handshake_vars, tick_vars, wait_vars, image_vars, qmp_vars, job_vars, agent_vars, lan_vars, derive_vars, recorder_vars, steps_vars, scenario_file_vars, address_vars, app_pc, app_phase, init_task, init_handle, init_result, app_runner,
                   shutdown_signal, should_quit, runner_stop, runner_cleanup, app_exit>>

\* The task spawned for start_initialization returns: an error at any
\* stage, or a runner after the Ready update.
start_initialization_returns ==
    /\ app_pc \notin {"off", "returned"}
    /\ init_task = "running"
    /\ \/ /\ init_task' = "err"
          /\ UNCHANGED <<init_stage, progress_rx>>
       \/ /\ init_stage + 1 = Len(Stages)
          /\ init_task' = "ok"
          /\ init_stage' = init_stage + 1
          /\ progress_rx' = Append(progress_rx, Stages[init_stage + 1])
    /\ UNCHANGED <<runner_vars, vm_state_vars, handshake_vars, tick_vars, wait_vars, image_vars, qmp_vars, job_vars, agent_vars, lan_vars, derive_vars, recorder_vars, steps_vars, scenario_file_vars, address_vars, app_pc, app_phase, init_handle, init_result, app_runner, shutdown_signal,
                   should_quit, runner_stop, runner_cleanup, app_exit>>

\* spawn_shutdown_listener: Ctrl-C arrives and the listener sets the flag.
ctrl_c ==
    /\ app_pc \notin {"off", "returned"}
    /\ ~shutdown_signal
    /\ shutdown_signal' = TRUE
    /\ UNCHANGED <<runner_vars, vm_state_vars, handshake_vars, tick_vars, wait_vars, image_vars, qmp_vars, job_vars, agent_vars, lan_vars, derive_vars, recorder_vars, steps_vars, scenario_file_vars, address_vars, app_pc, app_phase, progress_rx, init_stage, init_task, init_handle, init_result, app_runner, should_quit,
                   runner_stop, runner_cleanup, app_exit>>

\* The head of the loop: on the shutdown signal, initiate_shutdown and break.
run_loop_head ==
    /\ app_pc = "head"
    /\ IF shutdown_signal
       THEN /\ \E s \in CallResults, c \in CallResults : shutdown_runner(s, c)
            /\ app_pc' = "finish"
       ELSE /\ app_pc' = "poll_init"
            /\ UNCHANGED <<app_phase, app_runner, runner_stop, runner_cleanup>>
    /\ UNCHANGED <<runner_vars, vm_state_vars, handshake_vars, tick_vars, wait_vars, image_vars, qmp_vars, job_vars, agent_vars, lan_vars, derive_vars, recorder_vars, steps_vars, scenario_file_vars, address_vars, progress_rx, init_stage, init_task, init_handle, init_result, shutdown_signal, should_quit,
                   app_exit>>

\* poll_initialization: a finished task is joined; its runner goes into the
\* app, its error is kept and asks the loop to end.  Then
\* drain_progress_updates: every update received sets the phase.
poll_initialization ==
    /\ app_pc = "poll_init"
    /\ IF ~app_runner /\ init_handle /\ is_finished
       THEN /\ init_handle' = FALSE
            /\ IF init_task = "ok"
               THEN /\ app_runner' = TRUE
                    /\ UNCHANGED <<init_result, should_quit>>
               ELSE /\ init_result' = "err"
                    /\ should_quit' = TRUE
                    /\ UNCHANGED app_runner
       ELSE UNCHANGED <<init_handle, app_runner, init_result, should_quit>>
    /\ app_phase' = IF progress_rx = <<>> THEN app_phase ELSE progress_rx[Len(progress_rx)]
    /\ progress_rx' = <<>>
    /\ app_pc' = "events"
    /\ UNCHANGED <<runner_vars, vm_state_vars, handshake_vars, tick_vars, wait_vars, image_vars, qmp_vars, job_vars, agent_vars, lan_vars, derive_vars, recorder_vars, steps_vars, scenario_file_vars, address_vars, init_stage, init_task, shutdown_signal, runner_stop, runner_cleanup, app_exit>>

\* poll_events with handle_key_event: a quit key calls initiate_shutdown and
\* ends the loop.
poll_events ==
    /\ app_pc = "events"
    /\ \E key \in Keys :
         IF key = "quit"
         THEN /\ \E s \in CallResults, c \in CallResults : shutdown_runner(s, c)
              /\ app_pc' = "finish"
         ELSE /\ app_pc' = "probes"
              /\ UNCHANGED <<app_phase, app_runner, runner_stop, runner_cleanup>>
    /\ UNCHANGED <<runner_vars, vm_state_vars, handshake_vars, tick_vars, wait_vars, image_vars, qmp_vars, job_vars, agent_vars, lan_vars, derive_vars, recorder_vars, steps_vars, scenario_file_vars, address_vars, progress_rx, init_stage, init_task, init_handle, init_result, shutdown_signal, should_quit,
                   app_exit>>

\* maybe_check_probes: in the Running phase with a runner, the probes are
\* checked and a completed scenario ends the phase; then the test of
\* should_quit at the foot of the loop.
maybe_check_probes ==
    /\ app_pc = "probes"
    /\ IF app_phase = "Running" /\ app_runner
       THEN \E completed \in BOOLEAN :
              app_phase' = IF completed THEN "Completed" ELSE app_phase
       ELSE UNCHANGED app_phase
    /\ app_pc' = IF should_quit THEN "finish" ELSE "head"
    /\ UNCHANGED <<runner_vars, vm_state_vars, handshake_vars, tick_vars, wait_vars, image_vars, qmp_vars, job_vars, agent_vars, lan_vars, derive_vars, recorder_vars, steps_vars, scenario_file_vars, address_vars, progress_rx, init_stage, init_task, init_handle, init_result, app_runner, shutdown_signal,
                   should_quit, runner_stop, runner_cleanup, app_exit>>

\* finish_initialization: nothing without a handle; an unfinished task is
\* aborted; a finished one is joined and its runner put into the app.
finish_initialization ==
    /\ app_pc = "finish"
    /\ IF ~init_handle
       THEN /\ app_pc' = "return"
            /\ UNCHANGED <<init_handle, app_runner, app_exit>>
       ELSE /\ init_handle' = FALSE
            /\ IF ~app_runner /\ init_result = "none" /\ ~is_finished
               THEN /\ app_pc' = "abort"
                    /\ UNCHANGED <<app_runner, app_exit>>
               ELSE IF init_task = "ok"
               THEN /\ app_runner' = TRUE
                    /\ app_pc' = "return"
                    /\ UNCHANGED app_exit
               ELSE /\ app_exit' = "err"
                    /\ app_pc' = "returned"
                    /\ UNCHANGED app_runner
    /\ UNCHANGED <<runner_vars, vm_state_vars, handshake_vars, tick_vars, wait_vars, image_vars, qmp_vars, job_vars, agent_vars, lan_vars, derive_vars, recorder_vars, steps_vars, scenario_file_vars, address_vars, app_phase, progress_rx, init_stage, init_task, init_result, shutdown_signal,
                   should_quit, runner_stop, runner_cleanup>>

\* handle.abort() and `let _ = handle.await`: a task still running is
\* cancelled; the output of one that has just returned is discarded.
abort_task ==
    /\ app_pc = "abort"
    /\ init_task' = IF init_task = "running" THEN "aborted" ELSE init_task
    /\ app_pc' = "return"
    /\ UNCHANGED <<runner_vars, vm_state_vars, handshake_vars, tick_vars, wait_vars, image_vars, qmp_vars, job_vars, agent_vars, lan_vars, derive_vars, recorder_vars, steps_vars, scenario_file_vars, address_vars, app_phase, progress_rx, init_stage, init_handle, init_result, app_runner, shutdown_signal, should_quit,
                   runner_stop, runner_cleanup, app_exit>>

\* The end of run: the error of the initialization, or Ok.
run_returns ==
    /\ app_pc = "return"
    /\ app_exit' = IF init_result = "err" THEN "err" ELSE "ok"
    /\ app_pc' = "returned"
    /\ UNCHANGED <<runner_vars, vm_state_vars, handshake_vars, tick_vars, wait_vars, image_vars, qmp_vars, job_vars, agent_vars, lan_vars, derive_vars, recorder_vars, steps_vars, scenario_file_vars, address_vars, app_phase, progress_rx, init_stage, init_task, init_handle, init_result, app_runner, shutdown_signal,
                   should_quit, runner_stop, runner_cleanup>>

----------------------------------------------------------------------------
(* ImageCache: ensure_image_with_progress, download, verify_checksum, and  *)
(* the use of the cached file by create_vm, over several runs.             *)

MaxRuns == 3

\* The sha256 digests a file can have, as hex strings.
Digests == {"d1", "d2"}

\* The checksums a scenario declares for an image source: `sha256:<hex>`,
\* or another format.
Checksums == [prefix : {"sha256:", "md5:"}, hash : Digests]

\* What the server sends: nothing (the request fails or the status is not a
\* success), a body that breaks off, or a whole body with some digest.
Downloads == {"refused", "broken"} \cup Digests

ImageIdle ==
    /\ img_pc = "off"
    /\ img_run = 0
    /\ img_checksum = [prefix |-> "sha256:", hash |-> "d1"]
    /\ cache_file = "none"
    /\ temp_file = "none"
    /\ base_image = "none"
    /\ img_result = "none"

\* ImageCache::is_cached and get_cached_path: the file exists.
is_cached == cache_file # "none"

\* verify_checksum: without the sha256: prefix the verification is skipped;
\* otherwise the hex digest of the file is compared with the declared one.
verify_checksum(file, expected) ==
    IF expected.prefix # "sha256:" THEN TRUE ELSE file = expected.hash

\* start_initialization, the image loop: a source that is not cached is
\* handed to ensure_image_with_progress; a cached one goes on to create_vm.
start_initialization_images ==
    /\ img_pc = "images"
    /\ img_pc' = IF is_cached THEN "create_vm" ELSE "download"
    /\ UNCHANGED <<runner_vars, vm_state_vars, handshake_vars, tick_vars, wait_vars, qmp_vars, job_vars, agent_vars, lan_vars, derive_vars, recorder_vars, steps_vars, scenario_file_vars, address_vars, app_vars, img_run, img_checksum, cache_file, temp_file, base_image, img_result>>

\* ensure_image_with_progress up to the end of download_with_progress: the
\* body is written to the temporary file, which is renamed to the cache path
\* when the stream has ended.
download_with_progress ==
    /\ img_pc = "download"
    /\ \E body \in Downloads :
         CASE body = "refused" ->
                /\ img_pc' = "done"
                /\ img_result' = "err"
                /\ UNCHANGED <<cache_file, temp_file>>
           [] body = "broken" ->
                /\ img_pc' = "done"
                /\ img_result' = "err"
                /\ temp_file' = "partial"
                /\ UNCHANGED cache_file
           [] OTHER ->
                /\ img_pc' = "verify"
                /\ cache_file' = body
                /\ temp_file' = "none"
                /\ UNCHANGED img_result
    /\ UNCHANGED <<runner_vars, vm_state_vars, handshake_vars, tick_vars, wait_vars, qmp_vars, job_vars, agent_vars, lan_vars, derive_vars, recorder_vars, steps_vars, scenario_file_vars, address_vars, app_vars, img_run, img_checksum, base_image>>

\* ensure_image_with_progress, after the download: verify_checksum on the
\* file at the cache path; its error is returned.
verify_downloaded ==
    /\ img_pc = "verify"
    /\ IF verify_checksum(cache_file, img_checksum)
       THEN /\ img_pc' = "create_vm"
            /\ UNCHANGED img_result
       ELSE /\ img_pc' = "done"
            /\ img_result' = "err"
    /\ UNCHANGED <<runner_vars, vm_state_vars, handshake_vars, tick_vars, wait_vars, qmp_vars, job_vars, agent_vars, lan_vars, derive_vars, recorder_vars, steps_vars, scenario_file_vars, address_vars, app_vars, img_run, img_checksum, cache_file, temp_file, base_image>>

\* create_vm: base_image_for_vm takes get_cached_path and the overlay disk
\* is created on it.
create_vm_base_image ==
    /\ img_pc = "create_vm"
    /\ IF is_cached
       THEN /\ base_image' = cache_file
            /\ img_result' = "ok"
       ELSE /\ img_result' = "err"
            /\ UNCHANGED base_image
    /\ img_pc' = "done"
    /\ UNCHANGED <<runner_vars, vm_state_vars, handshake_vars, tick_vars, wait_vars, qmp_vars, job_vars, agent_vars, lan_vars, derive_vars, recorder_vars, steps_vars, scenario_file_vars, address_vars, app_vars, img_run, img_checksum, cache_file, temp_file>>

\* The program is started again on the same scenario and cache directory.
next_run ==
    /\ img_pc = "done"
    /\ img_run < MaxRuns
    /\ img_run' = img_run + 1
    /\ img_pc' = "images"
    /\ base_image' = "none"
    /\ img_result' = "none"
    /\ UNCHANGED <<runner_vars, vm_state_vars, handshake_vars, tick_vars, wait_vars, qmp_vars, job_vars, agent_vars, lan_vars, derive_vars, recorder_vars, steps_vars, scenario_file_vars, address_vars, app_vars, img_checksum, cache_file, temp_file>>

----------------------------------------------------------------------------
(* wait_for_agents with wait_for_agent: attempts, sleeps and the timeout.  *)

\* wait_for_agent makes 60 attempts and sleeps 5 s after each failed one; a
\* ping waits 30 s for its answer; wait_for_agents allows 600 s per VM.
AgentAttempts == 60

AgentRetrySleepSecs == 5

AgentResponseSecs == 30

AgentTimeoutSecs == 600

\* One attempt of wait_for_agent: the connection is refused, the ping is
\* answered, the ping fails at once, or its answer does not come.
AttemptOutcomes == {"refused", "pong", "ping_err", "ping_timeout"}

\* The seconds an attempt takes before its result is known.
attempt_secs(o) == IF o = "ping_timeout" THEN AgentResponseSecs ELSE 0

NoAgentResult == [kind |-> "none", vm |-> 0]

WaitIdle ==
    /\ wfa_pc = "off"
    /\ wfa_vms = 0
    /\ wfa_vm = 0
    /\ wfa_try = 0
    /\ wfa_secs = 0
    /\ wfa_answered = {}
    /\ wfa_state = <<>>
    /\ wfa_result = NoAgentResult

\* The states of the VMs when wait_for_agents returns: Ready for every VM
\* after the loop over the VMs has ended, untouched on an early return.
ready_states(states, ok) == IF ok THEN [v \in DOMAIN states |-> "Ready"] ELSE states

\* wait_for_agents returns: Ok after the last VM, or the error.
wait_for_agents_returns(result) ==
    /\ wfa_pc' = "done"
    /\ wfa_result' = result
    /\ wfa_state' = ready_states(wfa_state, result.kind = "Ok")

\* One attempt of wait_for_agent on the current VM, under the timeout of
\* wait_for_agents: try_connect and ping, then the sleep or the return.
wait_for_agent_attempt ==
    /\ wfa_pc = "wait"
    /\ wfa_vm <= wfa_vms
    /\ \E o \in AttemptOutcomes :
         IF wfa_secs + attempt_secs(o) >= AgentTimeoutSecs
         THEN \* the timeout of wait_for_agents elapses during the attempt
              /\ wait_for_agents_returns([kind |-> "Timeout", vm |-> wfa_vm])
              /\ UNCHANGED <<wfa_vm, wfa_try, wfa_secs, wfa_answered>>
         ELSE IF o = "pong"
         THEN /\ wfa_answered' = wfa_answered \cup {wfa_vm}
              /\ wfa_vm' = wfa_vm + 1
              /\ wfa_try' = 0
              /\ wfa_secs' = 0
              /\ UNCHANGED <<wfa_pc, wfa_state, wfa_result>>
         ELSE IF wfa_secs + attempt_secs(o) + AgentRetrySleepSecs >= AgentTimeoutSecs
         THEN \* the timeout elapses during the sleep
              /\ wait_for_agents_returns([kind |-> "Timeout", vm |-> wfa_vm])
              /\ UNCHANGED <<wfa_vm, wfa_try, wfa_secs, wfa_answered>>
         ELSE IF wfa_try + 1 = AgentAttempts
         THEN \* wait_for_agent gives up: Timeout("Agent did not become ready")
              /\ wait_for_agents_returns([kind |-> "Timeout", vm |-> 0])
              /\ UNCHANGED <<wfa_vm, wfa_try, wfa_secs, wfa_answered>>
         ELSE /\ wfa_try' = wfa_try + 1
              /\ wfa_secs' = wfa_secs + attempt_secs(o) + AgentRetrySleepSecs
              /\ UNCHANGED <<wfa_pc, wfa_vm, wfa_answered, wfa_state, wfa_result>>
    /\ UNCHANGED <<runner_vars, vm_state_vars, handshake_vars, tick_vars, qmp_vars, job_vars, agent_vars, lan_vars, derive_vars, recorder_vars, steps_vars, scenario_file_vars, address_vars, app_vars, image_vars, wfa_vms>>

\* wait_for_agents after its loop: every VM is marked Ready.
wait_for_agents_mark_ready ==
    /\ wfa_pc = "wait"
    /\ wfa_vm > wfa_vms
    /\ wait_for_agents_returns([kind |-> "Ok", vm |-> 0])
    /\ UNCHANGED <<runner_vars, vm_state_vars, handshake_vars, tick_vars, qmp_vars, job_vars, agent_vars, lan_vars, derive_vars, recorder_vars, steps_vars, scenario_file_vars, address_vars, app_vars, image_vars, wfa_vms, wfa_vm, wfa_try, wfa_secs, wfa_answered>>

----------------------------------------------------------------------------
(* One tick of check_probes_phase: the requests to the agents.             *)

MaxTickVMs == 3

TickIdle ==
    /\ tk_pc = "off"
    /\ tk_vms = 0
    /\ tk_iter = <<>>
    /\ tk_with_probes = {}
    /\ tk_pos = 0
    /\ tk_inflight = {}
    /\ tk_sent = <<>>
    /\ tk_handled = {}

\* check_probes_phase, a VM none of whose probes is of the phase: continue.
check_probes_skip ==
    /\ tk_pc = "next"
    /\ tk_pos <= Len(tk_iter)
    /\ tk_iter[tk_pos] \notin tk_with_probes
    /\ tk_pos' = tk_pos + 1
    /\ UNCHANGED <<runner_vars, vm_state_vars, handshake_vars, qmp_vars, job_vars, agent_vars, lan_vars, derive_vars, recorder_vars, steps_vars, scenario_file_vars, address_vars, app_vars, image_vars, wait_vars, tk_pc, tk_vms, tk_iter, tk_with_probes, tk_inflight, tk_sent, tk_handled>>

\* check_probes_phase on the next VM of the map: try_connect, and check_all
\* writes its request; a refused connection is recorded as the failure of the
\* probes of the VM.
check_all_send ==
    /\ tk_pc = "next"
    /\ tk_pos <= Len(tk_iter)
    /\ tk_iter[tk_pos] \in tk_with_probes
    /\ LET v == tk_iter[tk_pos] IN
       \E connected \in BOOLEAN :
         IF connected
         THEN /\ tk_inflight' = tk_inflight \cup {v}
              /\ tk_sent' = Append(tk_sent, v)
              /\ tk_pc' = "sent"
              /\ UNCHANGED <<tk_pos, tk_handled>>
         ELSE /\ tk_handled' = tk_handled \cup {v}
              /\ tk_pos' = tk_pos + 1
              /\ UNCHANGED <<tk_pc, tk_inflight, tk_sent>>
    /\ UNCHANGED <<runner_vars, vm_state_vars, handshake_vars, qmp_vars, job_vars, agent_vars, lan_vars, derive_vars, recorder_vars, steps_vars, scenario_file_vars, address_vars, app_vars, image_vars, wait_vars, tk_vms, tk_iter, tk_with_probes>>

\* check_all returns, with the results or with an error: the results of the
\* VM are updated before the loop goes on.
check_all_returns ==
    /\ tk_pc = "sent"
    /\ LET v == tk_iter[tk_pos] IN
       /\ tk_inflight' = tk_inflight \ {v}
       /\ tk_handled' = tk_handled \cup {v}
    /\ tk_pos' = tk_pos + 1
    /\ tk_pc' = "next"
    /\ UNCHANGED <<runner_vars, vm_state_vars, handshake_vars, qmp_vars, job_vars, agent_vars, lan_vars, derive_vars, recorder_vars, steps_vars, scenario_file_vars, address_vars, app_vars, image_vars, wait_vars, tk_vms, tk_iter, tk_with_probes, tk_sent>>

\* check_probes_phase after the loop.
check_probes_phase_returns ==
    /\ tk_pc = "next"
    /\ tk_pos > Len(tk_iter)
    /\ tk_pc' = "done"
    /\ UNCHANGED <<runner_vars, vm_state_vars, handshake_vars, qmp_vars, job_vars, agent_vars, lan_vars, derive_vars, recorder_vars, steps_vars, scenario_file_vars, address_vars, app_vars, image_vars, wait_vars, tk_vms, tk_iter, tk_with_probes, tk_pos, tk_inflight, tk_sent, tk_handled>>

----------------------------------------------------------------------------
(* qmp_command: the greeting, qmp_capabilities, the command.               *)

MaxHandshakeLines == 3

\* A line QEMU sends on a new connection: the keys of its JSON object among
\* those the client looks at, or Garbage.
HandshakeLines == (SUBSET {"QMP", "event", "return", "error"}) \cup {Garbage}

\* The body of the loop of read_qmp_greeting on one message.
read_qmp_greeting_step(line) ==
    IF line = Garbage THEN "invalid"
    ELSE IF "QMP" \in line THEN "greeting"
    ELSE IF "event" \in line THEN "skip"
    ELSE "unexpected"

\* A faulty test of the reply to qmp_capabilities, for comparison: every
\* reply is taken as a success.
capabilities_accepted_always(line) == TRUE

\* qmp_command on the reply to qmp_capabilities: an `error` member fails
\* the call.
capabilities_accepted(line) == "error" \notin line

HandshakeIdle ==
    /\ hs_pc = "off"
    /\ hs_stream = <<>>
    /\ hs_eof = TRUE
    /\ hs_pos = 0
    /\ hs_sent = <<>>
    /\ hs_result = "none"

\* read_qmp_message at the end of the lines: 0 bytes if QEMU closed the
\* connection; otherwise the read does not return.
hs_read_eof ==
    /\ hs_eof
    /\ hs_pc' = "done"
    /\ hs_result' = "err_eof"
    /\ UNCHANGED <<hs_pos, hs_sent>>

\* read_qmp_greeting: one message is read before anything is written.
read_qmp_greeting ==
    /\ hs_pc = "greeting"
    /\ IF hs_pos < Len(hs_stream)
       THEN /\ hs_pos' = hs_pos + 1
            /\ LET r == read_qmp_greeting_step(hs_stream[hs_pos + 1]) IN
               /\ hs_pc' = CASE r = "greeting" -> "send_capabilities"
                             [] r = "skip" -> "greeting"
                             [] OTHER -> "done"
               /\ hs_result' = CASE r = "invalid" -> "err_json"
                                 [] r = "unexpected" -> "err_greeting"
                                 [] OTHER -> hs_result
            /\ UNCHANGED hs_sent
       ELSE hs_read_eof
    /\ UNCHANGED <<runner_vars, vm_state_vars, qmp_vars, job_vars, agent_vars, lan_vars, derive_vars, recorder_vars, steps_vars, scenario_file_vars, address_vars, app_vars, image_vars, wait_vars, tick_vars, hs_stream, hs_eof>>

\* qmp_command writes qmp_capabilities, or the write fails.
send_capabilities ==
    /\ hs_pc = "send_capabilities"
    /\ \E written \in BOOLEAN :
         IF written
         THEN /\ hs_sent' = Append(hs_sent, "qmp_capabilities")
              /\ hs_pc' = "capabilities_reply"
              /\ UNCHANGED hs_result
         ELSE /\ hs_pc' = "done"
              /\ hs_result' = "err_send"
              /\ UNCHANGED hs_sent
    /\ UNCHANGED <<runner_vars, vm_state_vars, qmp_vars, job_vars, agent_vars, lan_vars, derive_vars, recorder_vars, steps_vars, scenario_file_vars, address_vars, app_vars, image_vars, wait_vars, tick_vars, hs_stream, hs_eof, hs_pos>>

\* read_qmp_response for qmp_capabilities and the test of its `error`.
read_capabilities_response ==
    /\ hs_pc = "capabilities_reply"
    /\ IF hs_pos < Len(hs_stream)
       THEN /\ hs_pos' = hs_pos + 1
            /\ LET line == hs_stream[hs_pos + 1]
                   r == read_qmp_response_step(line) IN
               /\ hs_pc' = CASE r = "invalid" -> "done"
                             [] r = "response" ->
                                  IF capabilities_accepted(line) THEN "send_command" ELSE "done"
                             [] OTHER -> "capabilities_reply"
               /\ hs_result' = CASE r = "invalid" -> "err_json"
                                 [] r = "response" ->
                                      IF capabilities_accepted(line) THEN hs_result
                                      ELSE "err_capabilities"
                                 [] OTHER -> hs_result
            /\ UNCHANGED hs_sent
       ELSE hs_read_eof
    /\ UNCHANGED <<runner_vars, vm_state_vars, qmp_vars, job_vars, agent_vars, lan_vars, derive_vars, recorder_vars, steps_vars, scenario_file_vars, address_vars, app_vars, image_vars, wait_vars, tick_vars, hs_stream, hs_eof>>

\* qmp_command writes the command itself, or the write fails.
send_command ==
    /\ hs_pc = "send_command"
    /\ \E written \in BOOLEAN :
         IF written
         THEN /\ hs_sent' = Append(hs_sent, "command")
              /\ hs_pc' = "command_reply"
              /\ UNCHANGED hs_result
         ELSE /\ hs_pc' = "done"
              /\ hs_result' = "err_send"
              /\ UNCHANGED hs_sent
    /\ UNCHANGED <<runner_vars, vm_state_vars, qmp_vars, job_vars, agent_vars, lan_vars, derive_vars, recorder_vars, steps_vars, scenario_file_vars, address_vars, app_vars, image_vars, wait_vars, tick_vars, hs_stream, hs_eof, hs_pos>>

\* read_qmp_response for the command: its response is what qmp_command
\* returns.
read_command_response ==
    /\ hs_pc = "command_reply"
    /\ IF hs_pos < Len(hs_stream)
       THEN /\ hs_pos' = hs_pos + 1
            /\ LET r == read_qmp_response_step(hs_stream[hs_pos + 1]) IN
               /\ hs_pc' = IF r = "skip" THEN "command_reply" ELSE "done"
               /\ hs_result' = CASE r = "invalid" -> "err_json"
                                 [] r = "response" -> "ok"
                                 [] OTHER -> hs_result
            /\ UNCHANGED hs_sent
       ELSE hs_read_eof
    /\ UNCHANGED <<runner_vars, vm_state_vars, qmp_vars, job_vars, agent_vars, lan_vars, derive_vars, recorder_vars, steps_vars, scenario_file_vars, address_vars, app_vars, image_vars, wait_vars, tick_vars, hs_stream, hs_eof>>

----------------------------------------------------------------------------
(* VmState: the state field of the instances of a runner, by VM name.      *)

MaxNamedVMs == 3

MaxResets == 2

\* The names the VMs of a scenario can have; Scenario::parse accepts a name
\* more than once.
VmNames == {"a", "b"}

\* No instance under a name, and no VM concerned by a failure.
NoVm == "none"

\* The position of a VmState on the way Starting, Booting, CloudInit, Ready.
state_rank(st) ==
    CASE st = "Starting" -> 1
      [] st = "Booting" -> 2
      [] st = "CloudInit" -> 3
      [] st = "Ready" -> 4
      [] OTHER -> 0

VmStateIdle ==
    /\ vs_pc = "off"
    /\ vs_scenario = <<>>
    /\ vs_vms = [n \in VmNames |-> NoVm]
    /\ vs_order = <<>>
    /\ vs_cursor = 0
    /\ vs_spawned = [n \in VmNames |-> 0]
    /\ vs_failed = NoVm
    /\ vs_resets = 0

\* create_vm on the next VM of the scenario: QemuInstance::new in Starting
\* is inserted into the map under the name, and the name is pushed onto
\* vm_order; after the last VM start_vms begins.
instance_create ==
    /\ vs_pc = "create"
    /\ IF vs_cursor <= Len(vs_scenario)
       THEN /\ vs_vms' = [vs_vms EXCEPT ![vs_scenario[vs_cursor]] = "Starting"]
            /\ vs_order' = Append(vs_order, vs_scenario[vs_cursor])
            /\ vs_cursor' = vs_cursor + 1
            /\ UNCHANGED vs_pc
       ELSE /\ vs_pc' = "start"
            /\ vs_cursor' = 1
            /\ UNCHANGED <<vs_vms, vs_order>>
    /\ UNCHANGED <<runner_vars, qmp_vars, job_vars, agent_vars, lan_vars, derive_vars, recorder_vars, steps_vars, scenario_file_vars, address_vars, app_vars, image_vars, wait_vars, tick_vars, handshake_vars, vs_scenario, vs_spawned, vs_failed, vs_resets>>

\* start_vms on the next name of vm_order: QemuInstance::start spawns QEMU
\* and sets Booting, or fails and leaves the state alone.
instance_start ==
    /\ vs_pc = "start"
    /\ vs_cursor <= Len(vs_order)
    /\ LET n == vs_order[vs_cursor] IN
       \E spawned \in BOOLEAN :
         IF spawned
         THEN /\ vs_spawned' = [vs_spawned EXCEPT ![n] = @ + 1]
              /\ vs_vms' = [vs_vms EXCEPT ![n] = "Booting"]
              /\ vs_pc' = "launched"
              /\ UNCHANGED vs_failed
         ELSE /\ vs_failed' = n
              /\ vs_pc' = "done"
              /\ UNCHANGED <<vs_spawned, vs_vms>>
    /\ UNCHANGED <<runner_vars, qmp_vars, job_vars, agent_vars, lan_vars, derive_vars, recorder_vars, steps_vars, scenario_file_vars, address_vars, app_vars, image_vars, wait_vars, tick_vars, handshake_vars, vs_scenario, vs_order, vs_cursor, vs_resets>>

\* start_vms after start returned Ok: the state becomes CloudInit.
start_vms_launched ==
    /\ vs_pc = "launched"
    /\ vs_vms' = [vs_vms EXCEPT ![vs_order[vs_cursor]] = "CloudInit"]
    /\ vs_cursor' = vs_cursor + 1
    /\ vs_pc' = IF vs_cursor = Len(vs_order) THEN "agents" ELSE "start"
    /\ UNCHANGED <<runner_vars, qmp_vars, job_vars, agent_vars, lan_vars, derive_vars, recorder_vars, steps_vars, scenario_file_vars, address_vars, app_vars, image_vars, wait_vars, tick_vars, handshake_vars, vs_scenario, vs_order, vs_spawned, vs_failed, vs_resets>>

\* start_vms on a scenario without VMs.
start_vms_none ==
    /\ vs_pc = "start"
    /\ vs_cursor > Len(vs_order)
    /\ vs_pc' = "agents"
    /\ UNCHANGED <<runner_vars, qmp_vars, job_vars, agent_vars, lan_vars, derive_vars, recorder_vars, steps_vars, scenario_file_vars, address_vars, app_vars, image_vars, wait_vars, tick_vars, handshake_vars, vs_scenario, vs_vms, vs_order, vs_cursor, vs_spawned, vs_failed, vs_resets>>

\* wait_for_agents, in start_initialization and in reset: every instance of
\* the map becomes Ready, or the agent of one VM fails and no state changes.
agents_ready ==
    /\ vs_pc = "agents"
    /\ \/ /\ vs_vms' = [n \in VmNames |-> IF vs_vms[n] = NoVm THEN NoVm ELSE "Ready"]
          /\ vs_pc' = "running"
          /\ UNCHANGED vs_failed
       \/ \E n \in VmNames :
            /\ vs_vms[n] # NoVm
            /\ vs_failed' = n
            /\ vs_pc' = "done"
            /\ UNCHANGED vs_vms
    /\ UNCHANGED <<runner_vars, qmp_vars, job_vars, agent_vars, lan_vars, derive_vars, recorder_vars, steps_vars, scenario_file_vars, address_vars, app_vars, image_vars, wait_vars, tick_vars, handshake_vars, vs_scenario, vs_order, vs_cursor, vs_spawned, vs_resets>>

\* reset: pause, load_checkpoint and resume over QMP; a failure of one VM
\* ends the reset, otherwise wait_for_agents follows.
reset_vms ==
    /\ vs_pc = "running"
    /\ vs_resets < MaxResets
    /\ vs_resets' = vs_resets + 1
    /\ \/ /\ vs_pc' = "agents"
          /\ UNCHANGED vs_failed
       \/ \E n \in VmNames :
            /\ vs_vms[n] # NoVm
            /\ vs_failed' = n
            /\ vs_pc' = "done"
    /\ UNCHANGED <<runner_vars, qmp_vars, job_vars, agent_vars, lan_vars, derive_vars, recorder_vars, steps_vars, scenario_file_vars, address_vars, app_vars, image_vars, wait_vars, tick_vars, handshake_vars, vs_scenario, vs_vms, vs_order, vs_cursor, vs_spawned>>

----------------------------------------------------------------------------
(* Specifications.                                                         *)

\* No scenario is run.
RunnerIdle ==
    /\ nvms = 0
    /\ vm_probes = [v \in AllVMs |-> <<>>]
    /\ vms_iter = <<>>
    /\ faults = {}
    /\ InitRun

ComponentsIdle ==
    /\ QmpIdle
    /\ JobIdle
    /\ AgentIdle
    /\ LanIdle
    /\ DeriveIdle
    /\ RecorderIdle
    /\ StepsIdle
    /\ ScenarioIdle
    /\ AddressIdle
    /\ AppIdle
    /\ ImageIdle
    /\ WaitIdle
    /\ TickIdle
    /\ HandshakeIdle
    /\ VmStateIdle

Next ==
    \/ new_with_dirs
    \/ create_vm
    \/ start_lan_switch_if_needed
    \/ start_vm
    \/ save_state
    \/ wait_for_agents
    \/ wait_for_boot_probes_none
    \/ wait_for_boot_probes_poll
    \/ wait_for_boot_probes_timeout
    \/ \E v \in AllVMs : pause_poll(v)
    \/ snapshot_step
    \/ \E v \in AllVMs : resume_poll(v)
    \/ snapshot_no_vms
    \/ check_probes
    \/ reset
    \/ initiate_shutdown
    \/ abort_initialization
    \/ stop_quit
    \/ stop_wait
    \/ stop_remove
    \/ stop_finish
    \/ cleanup
    \/ drop_runner
    \/ drop_runner_fields

\* The scenarios: up to MaxVMs VMs, each listing up to MaxProbeList probe
\* names (repetitions allowed), and any iteration order of the VM map.
Scenarios(lists) ==
    /\ nvms \in 0..MaxVMs
    /\ vm_probes \in [AllVMs -> lists]
    /\ \A v \in AllVMs : v > nvms => vm_probes[v] = <<>>
    /\ vms_iter \in Perms(1..nvms)

\* The probe lists without a scenario probe, and all the probe lists.
BootLists == {<<>>, <<"b">>}
AllLists == SeqsUpTo(Probes, MaxProbeList)

\* Runs in which the QMP sockets and commands can fail.
Init ==
    /\ Scenarios(BootLists)
    /\ faults = {"qmp"}
    /\ InitRun
    /\ ComponentsIdle

Spec == Init /\ [][Next]_vars

\* Runs in which the agents can fail to answer, over every probe list.
InitProbes ==
    /\ Scenarios(AllLists)
    /\ faults = {"probe"}
    /\ InitRun
    /\ ComponentsIdle

SpecProbes == InitProbes /\ [][Next]_vars

\* Runs in which creating, spawning, readiness and removals can fail.
InitLifecycle ==
    /\ Scenarios(BootLists)
    /\ faults = {"create", "spawn", "agent", "rm"}
    /\ InitRun
    /\ ComponentsIdle

SpecLifecycle == InitLifecycle /\ [][Next]_vars

\* The components on their own.

NextQmp ==
    \/ read_qmp_message

\* Every sequence of lines after a request, closed or left open by QEMU.
InitQmp ==
    /\ RunnerIdle
    /\ VmStateIdle
    /\ HandshakeIdle
    /\ TickIdle
    /\ WaitIdle
    /\ ImageIdle
    /\ AppIdle
    /\ AddressIdle
    /\ ScenarioIdle
    /\ StepsIdle
    /\ RecorderIdle
    /\ DeriveIdle
    /\ qmp_stream \in SeqsUpTo(QmpLines, MaxLines)
    /\ qmp_eof \in BOOLEAN
    /\ qmp_pos = 0
    /\ qmp_reply = [kind |-> "none", at |-> 0]
    /\ JobIdle
    /\ AgentIdle
    /\ LanIdle

SpecQmp == InitQmp /\ [][NextQmp]_vars

NextJob ==
    \/ wait_for_job_poll
    \/ wait_for_job_dismiss

\* wait_for_job is entered with the snapshot command accepted.
InitJob ==
    /\ RunnerIdle
    /\ VmStateIdle
    /\ HandshakeIdle
    /\ TickIdle
    /\ WaitIdle
    /\ ImageIdle
    /\ AppIdle
    /\ AddressIdle
    /\ ScenarioIdle
    /\ StepsIdle
    /\ RecorderIdle
    /\ DeriveIdle
    /\ QmpIdle
    /\ job_pc = "query"
    /\ job_polls = 0
    /\ job_seen = NoJob
    /\ job_dismiss = "none"
    /\ job_result = NoResult
    /\ AgentIdle
    /\ LanIdle

SpecJob == InitJob /\ [][NextJob]_vars

\* The client is scheduled: wait_for_job takes its next step whenever it has
\* one.
FairSpecJob == SpecJob /\ WF_vars(NextJob)

NextAgent ==
    \/ send_request
    \/ read_response

\* Every request kind and every sequence of lines from the agent.
InitAgent ==
    /\ RunnerIdle
    /\ VmStateIdle
    /\ HandshakeIdle
    /\ TickIdle
    /\ WaitIdle
    /\ ImageIdle
    /\ AppIdle
    /\ AddressIdle
    /\ ScenarioIdle
    /\ StepsIdle
    /\ RecorderIdle
    /\ DeriveIdle
    /\ QmpIdle
    /\ JobIdle
    /\ agent_stream \in SeqsUpTo(AgentLines, MaxAgentLines)
    /\ agent_end \in {"eof", "silent", "io_err"}
    /\ agent_expected \in ExpectedResponse
    /\ agent_written = 0
    /\ agent_pos = 0
    /\ agent_result = [kind |-> "none", at |-> 0]
    /\ LanIdle

SpecAgent == InitAgent /\ [][NextAgent]_vars

NextSwitch ==
    \/ run_switch_recv
    \/ run_switch_stop

\* A switch as start_lan_switch_if_needed spawns it: one peer per VM, two
\* VMs or more, an empty table.
InitSwitch ==
    /\ RunnerIdle
    /\ VmStateIdle
    /\ HandshakeIdle
    /\ TickIdle
    /\ WaitIdle
    /\ ImageIdle
    /\ AppIdle
    /\ AddressIdle
    /\ ScenarioIdle
    /\ StepsIdle
    /\ RecorderIdle
    /\ DeriveIdle
    /\ QmpIdle
    /\ JobIdle
    /\ AgentIdle
    /\ \E n \in 2..MaxPeers : lan_peers = [i \in 1..n |-> i]
    /\ mac_table = [m \in MACs |-> 0]
    /\ lan_rx = NoFrame
    /\ lan_tx = <<>>
    /\ lan_heard = [m \in MACs |-> 0]
    /\ lan_stopped = FALSE

SpecSwitch == InitSwitch /\ [][NextSwitch]_vars

NextDerive == derive_lines_step

\* Every short byte sequence and the example streams, fed to a fresh
\* LineCapture as raw input or as raw output.
InitDerive ==
    /\ RunnerIdle
    /\ VmStateIdle
    /\ HandshakeIdle
    /\ TickIdle
    /\ WaitIdle
    /\ ImageIdle
    /\ AppIdle
    /\ AddressIdle
    /\ ScenarioIdle
    /\ StepsIdle
    /\ RecorderIdle
    /\ QmpIdle
    /\ JobIdle
    /\ AgentIdle
    /\ LanIdle
    /\ drv_kind \in ActionLineKind
    /\ drv_chunk \in SeqsUpTo(Bytes, MaxChunk) \cup ExampleChunks
    /\ drv_pos = 0
    /\ drv_st = NoCapture
    /\ drv_cuts = <<>>

SpecDerive == InitDerive /\ [][NextDerive]_vars

NextChunks == handle_raw_event

\* The same streams, cut into raw events in every way.
SpecChunks == InitDerive /\ [][NextChunks]_vars

NextRecorder ==
    \/ record_command
    \/ record_command_output
    \/ send_session_start
    \/ proxy_pty_input
    \/ proxy_pty_output
    \/ send_session_end
    \/ read_action_event

\* A connection just made, no session open in the guest.
InitRecorder ==
    /\ RunnerIdle
    /\ VmStateIdle
    /\ HandshakeIdle
    /\ TickIdle
    /\ WaitIdle
    /\ ImageIdle
    /\ AppIdle
    /\ AddressIdle
    /\ ScenarioIdle
    /\ StepsIdle
    /\ QmpIdle
    /\ JobIdle
    /\ AgentIdle
    /\ LanIdle
    /\ DeriveIdle
    /\ rec_pc = "idle"
    /\ rec_steps = 0
    /\ rec_pty = NewPtyBuffers
    /\ rec_wire = <<>>
    /\ line_state = NewLineCapture
    /\ cast_writer = FALSE
    /\ rec_raw_seen = FALSE
    /\ rec_both = <<>>
    /\ tx_lines = <<>>
    /\ rec_expected = <<>>

SpecRecorder == InitRecorder /\ [][NextRecorder]_vars

\* The guest runs interactive sessions only.
NextSsh ==
    \/ send_session_start
    \/ proxy_pty_input
    \/ proxy_pty_output
    \/ send_session_end
    \/ read_action_event

SpecSsh == InitRecorder /\ [][NextSsh]_vars

NextSteps ==
    \/ apply_vm_steps_begin
    \/ apply_vm_step
    \/ apply_vm_steps_end

\* The VM "web" and a configuration with a runcmd or without.
InitStepsWith(steps) ==
    /\ RunnerIdle
    /\ VmStateIdle
    /\ HandshakeIdle
    /\ TickIdle
    /\ WaitIdle
    /\ ImageIdle
    /\ AppIdle
    /\ AddressIdle
    /\ ScenarioIdle
    /\ QmpIdle
    /\ JobIdle
    /\ AgentIdle
    /\ LanIdle
    /\ DeriveIdle
    /\ RecorderIdle
    /\ stp_pc = "start"
    /\ stp_vm = <<119, 101, 98>>
    /\ stp_steps \in steps
    /\ stp_pre \in PreRuncmds
    /\ stp_config = [runcmd |-> stp_pre, write_files |-> <<>>]
    /\ stp_runcmd = <<>>
    /\ stp_i = 0

\* Every step name, each with one action; or no step.
InitStepNames ==
    InitStepsWith({<<>>} \cup {<<[name |-> n, actions |-> <<"systemctl">>]>> : n \in StepNames})

SpecStepNames == InitStepNames /\ [][NextSteps]_vars

\* Every list of steps with every list of actions, over a few names; as
\* parse_vm accepts them, the names differ and no step is without action.
InitSteps ==
    InitStepsWith({ steps \in SeqsUpTo([name : FewNames,
                                        actions : SeqsUpTo(VmActions, MaxActions) \ {<<>>}],
                                       MaxSteps) :
                      \A i, j \in 1..Len(steps) : steps[i].name = steps[j].name => i = j })

SpecSteps == InitSteps /\ [][NextSteps]_vars

\* The names "x", "X", "x x", "x-x", "x_x" and "break-x".
PairNames ==
    { <<120>>, <<88>>, <<120, 32, 120>>, <<120, 45, 120>>, <<120, 95, 120>>,
      str_break \o <<45, 120>> }

\* Two steps with one action each; as parse_vm accepts them, their names
\* differ.
InitStepPairs ==
    InitStepsWith({ steps \in { <<[name |-> n1, actions |-> <<"systemctl">>],
                                  [name |-> n2, actions |-> <<"command">>]>> :
                                  n1 \in PairNames, n2 \in PairNames } :
                      steps[1].name # steps[2].name })

SpecStepPairs == InitStepPairs /\ [][NextSteps]_vars

NextScenario ==
    \/ parse_block
    \/ validate_scenario

\* Every scenario file of up to MaxBlocks blocks.
InitScenario ==
    /\ RunnerIdle
    /\ VmStateIdle
    /\ HandshakeIdle
    /\ TickIdle
    /\ WaitIdle
    /\ ImageIdle
    /\ AppIdle
    /\ AddressIdle
    /\ QmpIdle
    /\ JobIdle
    /\ AgentIdle
    /\ LanIdle
    /\ DeriveIdle
    /\ RecorderIdle
    /\ StepsIdle
    /\ scn_blocks \in SeqsUpTo(Blocks, MaxBlocks)
    /\ scn_pos = 0
    /\ scenario = EmptyScenario
    /\ scn_result = "none"

SpecScenario == InitScenario /\ [][NextScenario]_vars

NextAddresses ==
    \/ assign_vm_addresses
    \/ create_vm_addresses

InitAddresses ==
    /\ RunnerIdle
    /\ VmStateIdle
    /\ HandshakeIdle
    /\ TickIdle
    /\ WaitIdle
    /\ ImageIdle
    /\ AppIdle
    /\ QmpIdle
    /\ JobIdle
    /\ AgentIdle
    /\ LanIdle
    /\ DeriveIdle
    /\ RecorderIdle
    /\ StepsIdle
    /\ ScenarioIdle
    /\ addr_vms \in VmCounts
    /\ addr_pc = "new"
    /\ addr_created = 0
    /\ addr_last = NoAddress
    /\ addr_result = "none"

SpecAddresses == InitAddresses /\ [][NextAddresses]_vars

NextApp ==
    \/ start_initialization_progress
    \/ start_initialization_returns
    \/ ctrl_c
    \/ run_loop_head
    \/ poll_initialization
    \/ poll_events
    \/ maybe_check_probes
    \/ finish_initialization
    \/ abort_task
    \/ run_returns

\* App::run has spawned the initialization task and enters its loop.
InitApp ==
    /\ RunnerIdle
    /\ VmStateIdle
    /\ HandshakeIdle
    /\ TickIdle
    /\ WaitIdle
    /\ ImageIdle
    /\ QmpIdle
    /\ JobIdle
    /\ AgentIdle
    /\ LanIdle
    /\ DeriveIdle
    /\ RecorderIdle
    /\ StepsIdle
    /\ ScenarioIdle
    /\ AddressIdle
    /\ app_pc = "head"
    /\ app_phase = "Initializing"
    /\ progress_rx = <<>>
    /\ init_stage = 0
    /\ init_task = "running"
    /\ init_handle = TRUE
    /\ init_result = "none"
    /\ app_runner = FALSE
    /\ shutdown_signal = FALSE
    /\ should_quit = FALSE
    /\ runner_stop = "none"
    /\ runner_cleanup = "none"
    /\ app_exit = "none"

SpecApp == InitApp /\ [][NextApp]_vars

NextImage ==
    \/ start_initialization_images
    \/ download_with_progress
    \/ verify_downloaded
    \/ create_vm_base_image
    \/ next_run

\* The first run on an empty cache directory.
InitImage ==
    /\ RunnerIdle
    /\ VmStateIdle
    /\ HandshakeIdle
    /\ TickIdle
    /\ WaitIdle
    /\ QmpIdle
    /\ JobIdle
    /\ AgentIdle
    /\ LanIdle
    /\ DeriveIdle
    /\ RecorderIdle
    /\ StepsIdle
    /\ ScenarioIdle
    /\ AddressIdle
    /\ AppIdle
    /\ img_pc = "images"
    /\ img_run = 1
    /\ img_checksum \in Checksums
    /\ cache_file = "none"
    /\ temp_file = "none"
    /\ base_image = "none"
    /\ img_result = "none"

SpecImage == InitImage /\ [][NextImage]_vars

NextWait ==
    \/ wait_for_agent_attempt
    \/ wait_for_agents_mark_ready

\* wait_for_agents is called after start_vms: every VM is in CloudInit.
InitWait ==
    /\ RunnerIdle
    /\ VmStateIdle
    /\ HandshakeIdle
    /\ TickIdle
    /\ QmpIdle
    /\ JobIdle
    /\ AgentIdle
    /\ LanIdle
    /\ DeriveIdle
    /\ RecorderIdle
    /\ StepsIdle
    /\ ScenarioIdle
    /\ AddressIdle
    /\ AppIdle
    /\ ImageIdle
    /\ wfa_pc = "wait"
    /\ wfa_vms \in 0..MaxVMs
    /\ wfa_vm = 1
    /\ wfa_try = 0
    /\ wfa_secs = 0
    /\ wfa_answered = {}
    /\ wfa_state = [v \in 1..wfa_vms |-> "CloudInit"]
    /\ wfa_result = NoAgentResult

SpecWait == InitWait /\ [][NextWait]_vars

NextTick ==
    \/ check_probes_skip
    \/ check_all_send
    \/ check_all_returns
    \/ check_probes_phase_returns

\* A tick on a runner whose VMs are numbered in the order of the scenario:
\* any iteration order of the HashMap, any set of VMs with probes to check.
InitTick ==
    /\ RunnerIdle
    /\ VmStateIdle
    /\ HandshakeIdle
    /\ QmpIdle
    /\ JobIdle
    /\ AgentIdle
    /\ LanIdle
    /\ DeriveIdle
    /\ RecorderIdle
    /\ StepsIdle
    /\ ScenarioIdle
    /\ AddressIdle
    /\ AppIdle
    /\ ImageIdle
    /\ WaitIdle
    /\ tk_pc = "next"
    /\ tk_vms \in 0..MaxTickVMs
    /\ tk_iter \in Perms(1..tk_vms)
    /\ tk_with_probes \in SUBSET (1..tk_vms)
    /\ tk_pos = 1
    /\ tk_inflight = {}
    /\ tk_sent = <<>>
    /\ tk_handled = {}

SpecTick == InitTick /\ [][NextTick]_vars

NextHandshake ==
    \/ read_qmp_greeting
    \/ send_capabilities
    \/ read_capabilities_response
    \/ send_command
    \/ read_command_response

\* A new connection: every sequence of lines, closed or left open by QEMU.
InitHandshake ==
    /\ RunnerIdle
    /\ VmStateIdle
    /\ QmpIdle
    /\ JobIdle
    /\ AgentIdle
    /\ LanIdle
    /\ DeriveIdle
    /\ RecorderIdle
    /\ StepsIdle
    /\ ScenarioIdle
    /\ AddressIdle
    /\ AppIdle
    /\ ImageIdle
    /\ WaitIdle
    /\ TickIdle
    /\ hs_pc = "greeting"
    /\ hs_stream \in SeqsUpTo(HandshakeLines, MaxHandshakeLines)
    /\ hs_eof \in BOOLEAN
    /\ hs_pos = 0
    /\ hs_sent = <<>>
    /\ hs_result = "none"

SpecHandshake == InitHandshake /\ [][NextHandshake]_vars

NextVmState ==
    \/ instance_create
    \/ instance_start
    \/ start_vms_launched
    \/ start_vms_none
    \/ agents_ready
    \/ reset_vms

\* A runner for a scenario of up to MaxNamedVMs VMs.
InitVmState ==
    /\ RunnerIdle
    /\ QmpIdle
    /\ JobIdle
    /\ AgentIdle
    /\ LanIdle
    /\ DeriveIdle
    /\ RecorderIdle
    /\ StepsIdle
    /\ ScenarioIdle
    /\ AddressIdle
    /\ AppIdle
    /\ ImageIdle
    /\ WaitIdle
    /\ TickIdle
    /\ HandshakeIdle
    /\ vs_pc = "create"
    /\ vs_scenario \in SeqsUpTo(VmNames, MaxNamedVMs)
    /\ vs_vms = [n \in VmNames |-> NoVm]
    /\ vs_order = <<>>
    /\ vs_cursor = 1
    /\ vs_spawned = [n \in VmNames |-> 0]
    /\ vs_failed = NoVm
    /\ vs_resets = 0

SpecVmState == InitVmState /\ [][NextVmState]_vars

----------------------------------------------------------------------------
(* Properties.                                                             *)

\* A QMP call on VM v was attempted: its future was polled at least once.
attempted(st, v) == st[v] # "idle"

\* C1: save_checkpoint sends `snapshot-save` to no VM until the pause of
\* every VM of the runner has succeeded; when the pause of some VM fails, no
\* VM is sent `snapshot-save`.
C1_SnapshotOnlyAfterAllPaused ==
    op # "reset" =>
      \A v \in vms : attempted(snap_st, v) => \A w \in vms : pause_st[w] = "ok"

\* C1 witness: in a two-VM run, snapshot-save was written to a VM.
C1_Witness ==
    /\ op = "init"
    /\ Cardinality(vms) = 2
    /\ \E v \in vms : snap_st[v] \in SentStages

\* C2: on every exit path of save_checkpoint, a resume was attempted on every
\* VM of the runner before the call returned, whatever happened to the pause
\* or resume of another VM.
C2_ResumeAttemptedOnEveryVM ==
    (op # "reset" /\ snap_result # "none") => \A v \in vms : attempted(resume_st, v)

\* C3: reset pauses every VM, loads the checkpoint on each, attempts the
\* resume of every VM whether or not a load failed, and goes on to clear the
\* results and wait for readiness only when every load and resume succeeded;
\* a load error is returned only after the resume of every VM was attempted.
C3_ResetOrder ==
    op = "reset" =>
      /\ \A v \in vms : attempted(snap_st, v) => \A w \in vms : pause_st[w] = "ok"
      /\ pc \in {"agents", "boot"} =>
           \A v \in vms : snap_st[v] = "ok" /\ resume_st[v] = "ok"
      /\ (snap_result = "err" /\ \E w \in vms : snap_st[w] \in FailedStages) =>
           \A v \in vms : attempted(resume_st, v)

\* Every boot-phase probe listed on every VM has a passing result in res.
listed_probes_pass(res, ph) ==
    \A v \in vms : \A i \in DOMAIN vm_probes[v] :
       ProbePhase(vm_probes[v][i]) = ph => res[v][vm_probes[v][i]] = "pass"

\* C4: the scenario enters Running, at start-up and after a reset, only with
\* a passing result for every boot probe listed on every VM; after 60 polls
\* that did not all pass, wait_for_boot_probes fails with Timeout and the
\* state is not set to Running.
C4_RunningOnlyAfterBootProbes ==
    [][/\ (pc # "running" /\ pc' = "running")
            => (state' = "Running" /\ listed_probes_pass(probe_results', "Boot"))
       /\ (pc = "boot" /\ polls = BootProbePolls)
            => /\ state' = state
               /\ pc' = "drop_switch"
               /\ (exit' = "err" /\ fail_at' = "boot") \/ phase' = "ShuttingDown"]_vars

\* C4 witness: a two-VM scenario is Running, with a boot probe that passed on
\* a VM whose scenario probe has since failed.
C4_Witness ==
    /\ pc = "running"
    /\ state = "Running"
    /\ Cardinality(vms) = 2
    /\ \E v \in vms : probe_results[v]["b"] = "pass" /\ probe_results[v]["s"] = "fail"

\* C5: a check_probes tick sets Completed exactly when, after its upserts,
\* every scenario-phase probe listed on every VM has a passing result.
C5_CompletedExactlyWhenAllPass ==
    [][(pc = "running" /\ phase = "Running" /\ pc' = "running")
         => ((state' = "Completed") <=> listed_probes_pass(probe_results', "Scenario"))]_vars

\* The ways the agent of a VM fails in a tick.
AgentFailures == [kind : {"connect_err", "check_err"}, passed : {{}}]

\* C6: when the agent of a VM cannot be reached or check_all fails during a
\* tick, every probe that was to be checked on that VM has a failed result
\* after the tick, whatever result it had before.
C6_AgentFailureRecordedAsFailed ==
    (pc = "running" /\ phase = "Running") =>
      \A v \in vms : \A o \in AgentFailures : \A p \in probe_ids(v, "Scenario") :
         upsert_results(probe_results[v], v, "Scenario", o)[p] = "fail"

\* The VMs whose QEMU process was spawned.
spawned == {v \in AllVMs : child[v] # "none"}

\* C7: when a readiness step fails after VMs were spawned, the start command
\* ends with that error only after stop() ran on every spawned VM and the
\* run_dir was removed.
C7_ReadinessFailureStopsAndCleans ==
    (pc = "exit" /\ op = "init" /\ exit = "err"
       /\ fail_at \in {"agents", "boot", "checkpoint"} /\ spawned # {})
      => /\ \A v \in spawned : stop_st[v] = "done"
         /\ ~run_dir

C9_DropKillsAndRemoves ==
    \A v \in Range(vm_order) :
       (pc = "exit" /\ v \notin vms) =>
          /\ ~(process[v] /\ child[v] = "running")
          /\ files[v] \subseteq rm_failed[v]

\* C10: the forwarding thread of the switch runs before any VM process is
\* spawned, and is stopped only when no VM process owned by the runner is
\* still running, on stop() and on the drop of the runner alike.
C10_SwitchOutlivesVMs ==
    /\ (shared_lan_hub_port /\ spawned # {}) => switch_thread # "none"
    /\ switch_thread = "stopped" =>
         \A v \in AllVMs : ~(process[v] /\ child[v] = "running")

qemu_processes == {v \in AllVMs : child[v] = "running"}

\* The L2 switches that exist.
switch_count == IF switch_thread = "running" THEN 1 ELSE 0

\* C12: once the N VMs of a scenario are created and started there are
\* exactly N overlay disks, N seed ISOs, N QEMU processes and one switch iff
\* N >= 2; after stop() has returned each of these counts is 0.
C12_CountsAfterStartAndStop ==
    /\ pc \in {"agents", "boot", "pause", "snap", "resume", "running"} =>
         /\ Cardinality(disks) = nvms
         /\ Cardinality(isos) = nvms
         /\ Cardinality(qemu_processes) = nvms
         /\ switch_count = IF nvms >= 2 THEN 1 ELSE 0
    /\ pc = "cleanup" =>
         /\ Cardinality(disks) = 0
         /\ Cardinality(isos) = 0
         /\ Cardinality(qemu_processes) = 0
         /\ switch_count = 0

\* A line is a command's response: it carries `return` or `error` and no
\* `event`.
is_response(line) ==
    /\ line # Garbage
    /\ "event" \notin line
    /\ "return" \in line \/ "error" \in line

\* C13: the value returned for a command is the first line read after the
\* request that carries `return` or `error` and no `event`; a line with an
\* `event` key is never returned; end-of-stream before such a line is an
\* error.
C13_ResponseIsFirstReplyLine ==
    /\ qmp_reply.kind = "ok" =>
         /\ is_response(qmp_stream[qmp_reply.at])
         /\ \A j \in 1..(qmp_reply.at - 1) : ~is_response(qmp_stream[j])
    /\ qmp_reply.kind = "err_eof" =>
         /\ qmp_eof
         /\ \A j \in DOMAIN qmp_stream : ~is_response(qmp_stream[j])
    /\ (qmp_reply.kind = "none" /\ qmp_pos = Len(qmp_stream)) =>
         \A j \in DOMAIN qmp_stream : ~is_response(qmp_stream[j])

\* C13 witness: the reply was returned after an event line that itself
\* carried a `return` key was skipped.
C13_Witness ==
    /\ qmp_reply.kind = "ok"
    /\ qmp_reply.at = 3
    /\ \E j \in 1..2 : {"event", "return"} \subseteq qmp_stream[j]

\* C14: job-dismiss is issued only for a job with the client's job-id seen
\* with status `concluded`, and for every such job, failed or not, before
\* wait_for_job returns; wait_for_job returns success only if that job had
\* no non-null error and the dismiss succeeded; without a concluded job it
\* returns no success.
C14_DismissEveryConcludedJob ==
    /\ job_seen # NoJob => (job_seen.id = "mine" /\ job_seen.status = "concluded")
    /\ job_dismiss # "none" => job_seen # NoJob
    /\ (job_seen # NoJob /\ job_pc = "done") => job_dismiss \in {"return", "error", "failed"}
    /\ job_result.kind = "Ok" =>
         /\ job_seen # NoJob
         /\ job_seen.error.kind \in {"absent", "null"}
         /\ job_dismiss = "return"

\* C14 witness: after a poll that did not find the job concluded, a failed
\* job was seen concluded and dismissed.
C14_Witness ==
    /\ job_pc = "done"
    /\ job_polls > 0
    /\ job_seen.error.kind = "object"
    /\ job_dismiss = "return"

\* C15: when the concluded job carries a non-null error, wait_for_job
\* returns a failure reporting that error ("class: desc" when both are
\* present), whatever the outcome of job-dismiss.
C15_JobErrorReported ==
    (job_pc = "done" /\ job_seen # NoJob /\ job_seen.error.kind \in {"text", "object"}) =>
      /\ job_result.kind = "Err"
      /\ job_result.msg = <<"Job failed: ">> \o job_error_message(job_seen.error)
      /\ (job_seen.error.class # "none" /\ job_seen.error.desc # "none") =>
           job_result.msg = <<"Job failed: ", job_seen.error.class, ": ", job_seen.error.desc>>

\* C16: a snapshot save/load always terminates: wait_for_job eventually
\* returns, with a timeout error if the job never concludes or QEMU stops
\* sending lines.
C16_WaitForJobTerminates ==
    <>(job_pc = "done")

\* The lines before position n hold neither a response of the expected tag,
\* nor an `error` response, nor an unparsable line.
only_skippable_before(n) ==
    \A j \in 1..(n - 1) : agent_stream[j] \notin {agent_expected, "error", "garbage"}

\* C17: for one request the client writes exactly one request line, then
\* reads; it returns the first response of the expected tag, having skipped
\* only empty lines and responses of other tags; an `error` response read
\* first, an unparsable line, end-of-stream or the deadline make it fail.
C17_AgentReturnsFirstMatch ==
    /\ agent_written <= 1
    /\ agent_pos > 0 => agent_written = 1
    /\ agent_result.kind \notin {"idle", "none", "err_write"} =>
         /\ agent_written = 1
         /\ only_skippable_before(agent_result.at)
    /\ agent_result.kind = "ok" => agent_stream[agent_result.at] = agent_expected
    /\ agent_result.kind = "err_response" => agent_stream[agent_result.at] = "error"
    /\ agent_result.kind = "err_parse" => agent_stream[agent_result.at] = "garbage"
    /\ agent_result.kind = "err_eof" =>
         (agent_end = "eof" /\ only_skippable_before(Len(agent_stream) + 1))
    /\ (agent_result.kind = "none" /\ agent_pos > 0) =>
         only_skippable_before(agent_pos + 1)

\* C17 witness: the matching response was returned after an empty line and
\* a response of another tag were skipped.
C17_Witness ==
    /\ agent_result.kind = "ok"
    /\ agent_result.at = 3
    /\ \E j \in 1..2 : agent_stream[j] = ""
    /\ \E j \in 1..2 : agent_stream[j] \in ResponseTags

\* The number of times the last datagram was sent to address a.
sends_to(a) == Cardinality({i \in 1..Len(lan_tx) : lan_tx[i] = a})

\* The last datagram was sent once to every peer but its sender, and to no
\* other address.
flooded ==
    /\ \A a \in Range(lan_peers) \ {lan_rx.from} : sends_to(a) = 1
    /\ Range(lan_tx) \subseteq Range(lan_peers) \ {lan_rx.from}

\* C18: a frame of at least 14 bytes with a broadcast or multicast
\* destination is sent exactly once to every peer other than the address it
\* came from and to no other address, whatever the table holds.
C18_BroadcastFlooded ==
    (lan_rx.len >= 14 /\ (lan_rx.dst = <<255, 255>> \/ lan_rx.dst[1] % 2 = 1)) => flooded

\* C18 witness: a broadcast from the second of three peers, whose own
\* address the table holds for the broadcast MAC, went to the other two.
C18_Witness ==
    /\ lan_rx.len = 14
    /\ lan_rx.dst = <<255, 255>>
    /\ lan_rx.from = 2
    /\ Len(lan_peers) = 3
    /\ mac_table[<<255, 255>>] = 2
    /\ lan_tx = <<1, 3>>

\* C19: once a frame with source MAC A was received from an address, and
\* until a frame with source A arrives from a different address, a unicast
\* frame addressed to A that arrives from another address is sent to that
\* address only.
C19_UnicastToLearnedPeerOnly ==
    [][\A A \in MACs :
         (/\ lan_heard[A] # 0
          /\ lan_rx' # lan_rx \/ lan_tx' # lan_tx \/ mac_table' # mac_table
          /\ lan_rx'.len >= 14
          /\ lan_rx'.dst = A
          /\ A # <<255, 255>> /\ A[1] % 2 = 0
          /\ lan_rx'.src # A
          /\ lan_rx'.from # lan_heard[A])
         => lan_tx' = <<lan_heard[A]>>]_vars

\* C19 witness: with three peers, after the first peer's broadcast the
\* second peer's unicast reply went to the first peer only.
C19_Witness ==
    /\ Len(lan_peers) = 3
    /\ lan_heard[<<2, 0>>] = 1
    /\ mac_table[<<255, 255>>] = 0
    /\ lan_rx = [len |-> 14, dst |-> <<2, 0>>, src |-> <<4, 0>>, from |-> 2]
    /\ lan_tx = <<1>>

\* C20: a frame whose destination is neither broadcast nor multicast is
\* sent to the learned peer alone if the destination MAC is in the table and
\* that peer differs from the sender, and is flooded to every peer except
\* the sender in every other case.
C20_UnicastForwardOrFlood ==
    (/\ lan_rx.len >= 14
     /\ lan_rx.dst # <<255, 255>>
     /\ lan_rx.dst[1] % 2 = 0)
    => IF mac_table[lan_rx.dst] # 0 /\ mac_table[lan_rx.dst] # lan_rx.from
       THEN lan_tx = <<mac_table[lan_rx.dst]>>
       ELSE flooded

\* C21: the learning table is bounded by the static peer set: every address
\* stored in the table, and every address a frame is sent to, is one of the
\* peers the switch was spawned with, whatever addresses datagrams come from.
C21_TableWithinPeerSet ==
    /\ \A m \in MACs : mac_table[m] # 0 => mac_table[m] \in Range(lan_peers)
    /\ Range(lan_tx) \subseteq Range(lan_peers)

\* The byte the last step processed.
last_byte == drv_chunk[drv_pos']

\* What the claim has a line break send: the trimmed buffer if it is not
\* empty and, for output, not a prompt line.
line_break_sends(line, kind) ==
    IF trim(line) # <<>> /\ (kind = "Output" => ~is_prompt_line(line))
    THEN <<trim(line)>>
    ELSE <<>>

\* The rule for one byte of a raw stream.
byte_rule ==
    IF drv_st.escape
    THEN /\ drv_st'.line = drv_st.line
         /\ drv_st'.out = drv_st.out
         /\ drv_st'.escape = ~(last_byte \in (65..90) \cup (97..122) \cup {126})
    ELSE /\ last_byte = 27 =>
              drv_st' = [drv_st EXCEPT !.escape = TRUE]
         /\ last_byte \in {13, 10} =>
              /\ drv_st'.out = drv_st.out \o line_break_sends(drv_st.line, drv_kind)
              /\ drv_st'.line = <<>>
         /\ last_byte \in {127, 8} =>
              /\ drv_st'.out = drv_st.out
              /\ Len(drv_st'.line) = (IF drv_st.line = <<>> THEN 0 ELSE Len(drv_st.line) - 1)
              /\ drv_st'.line = SubSeq(drv_st.line, 1, Len(drv_st'.line))
         /\ last_byte \in {9} \cup (32..126) =>
              /\ drv_st'.out = drv_st.out
              /\ drv_st'.line = drv_st.line \o <<last_byte>>

\* The three example streams and what they yield.
examples_yield ==
    drv_pos = Len(drv_chunk) =>
      /\ (drv_chunk = <<108, 115, 10>> /\ drv_kind = "Input") =>
             drv_st.out = << <<108, 115>> >>
      /\ (drv_chunk = <<27, 91, 51, 49, 109, 120, 27, 91, 48, 109, 10>> /\ drv_kind = "Output") =>
             drv_st.out = << <<120>> >>
      /\ (drv_chunk = <<117, 64, 104, 58, 126, 36, 32, 10>> /\ drv_kind = "Output") =>
             drv_st.out = <<>>

\* C23: in a raw byte stream the bytes of an escape sequence (ESC through
\* the first ASCII letter or `~`) add nothing to the line; CR or LF sends
\* the trimmed buffer once if it is not empty (for output, if it is not a
\* prompt line either) and empties it; DEL/BS removes the last character;
\* tabs and printable ASCII are kept. "ls\n" yields the one Input line
\* "ls", ESC[31m x ESC[0m LF the one Output line "x", a prompt line nothing.
C23_LinesDerivedFromRawBytes ==
    [] examples_yield /\ [][drv_pos' = drv_pos + 1 => byte_rule]_vars

\* C23 witness: the coloured "x" was sent as the one Output line.
C23_Witness ==
    /\ drv_kind = "Output"
    /\ drv_chunk = <<27, 91, 51, 49, 109, 120, 27, 91, 48, 109, 10>>
    /\ drv_pos = Len(drv_chunk)
    /\ drv_st.out = << <<120>> >>

\* The Input lines derived from raw bytes, in the order they were sent.
raw_input_lines ==
    LET sel == SelectSeq(tx_lines, LAMBDA e : e.kind = "Input" /\ e.via = "raw")
    IN  [i \in 1..Len(sel) |-> sel[i].line]

\* C22: on one connection ssh_line and ssh_output events are forwarded only
\* while no raw event has been seen; once one has been seen they are not,
\* so a line that arrives both as raw bytes and as an ssh_line event is
\* reported once and not twice.
C22_PreferRawReportsOnce ==
    /\ \A i \in 1..Len(tx_lines) :
         tx_lines[i].via = "event" => (~tx_lines[i].raw_seen /\ ~tx_lines[i].both)
    /\ rec_wire = <<>> => raw_input_lines = rec_both

\* C22 witness: a command line was forwarded from its ssh_line event before
\* any raw event, and a line typed later came both ways and was reported
\* from the raw bytes alone.
C22_Witness ==
    /\ rec_wire = <<>>
    /\ rec_both = << <<108>> >>
    /\ Len(tx_lines) = 2
    /\ tx_lines[1].via = "event"
    /\ tx_lines[2].via = "raw"
    /\ tx_lines[2].line = <<108>>

\* The step that write_files entry i was compiled from is compiled as a
\* hidden step: script under /run/, self-deleting trap, all output to
\* /dev/null, run directly from runcmd.
compiled_hidden(i) ==
    LET f == stp_config.write_files[i]
    IN  /\ f.path.text = "/run/intar-step-"
        /\ \E k \in 1..Len(f.content) : f.content[k].text = "trap 'rm -f -- \"$0\"' EXIT"
        /\ \E k \in 1..Len(f.content) : f.content[k].text = "exec >/dev/null 2>&1"
        /\ \E k \in 1..Len(stp_runcmd) :
             stp_runcmd[k] = [f.path EXCEPT !.text = "bash /run/intar-step-"]

\* It is compiled as a visible step: script under /usr/local/bin/, run via
\* `cloud-init-per once`.
compiled_visible(i) ==
    LET f == stp_config.write_files[i]
    IN  /\ f.path.text = "/usr/local/bin/intar-step-"
        /\ \E k \in 1..Len(stp_runcmd) :
             stp_runcmd[k] =
               [f.path EXCEPT !.text = "cloud-init-per once intar-step- /usr/local/bin/intar-step-"]

\* C24: a step is compiled as a hidden step if and only if its name
\* contains the substring "break"; every other step is written under
\* /usr/local/bin/ and run via `cloud-init-per once`.
C24_HiddenIffNameContainsBreak ==
    \A i \in 1..Len(stp_config.write_files) :
        IF contains_str(stp_steps[i].name, str_break)
        THEN compiled_hidden(i)
        ELSE compiled_visible(i)

\* The renderings of the actions of a step, one after the other in
\* declaration order.
actions_in_order(i) ==
    LET step == stp_steps[i]
        R(j) == render_action(slugify(step.name), j - 1, step.actions[j])
        upto[j \in 0..Len(step.actions)] == IF j = 0 THEN <<>> ELSE upto[j - 1] \o R(j)
    IN  upto[Len(step.actions)]

\* The lines of a runcmd that are not line ends.
commands(runcmd) == SelectSeq(runcmd, LAMBDA l : l.text # "\n")

\* C25: each step's script holds the rendering of each of its actions once
\* and in declaration order, after the header; the resulting runcmd keeps
\* the lines it had first and then runs the step scripts in step
\* declaration order, one invocation per step.
C25_StepsCompiledInOrder ==
    (stp_pc = "done" /\ stp_steps # <<>>) =>
      /\ Len(stp_config.write_files) = Len(stp_steps)
      /\ \A i \in 1..Len(stp_steps) :
           LET f == stp_config.write_files[i]
               hidden == f.path.text = "/run/intar-step-"
               head == IF hidden THEN 4 ELSE 6
               foot == IF hidden THEN 0 ELSE 1
           IN  /\ Len(f.content) = head + Len(actions_in_order(i)) + foot
               /\ SubSeq(f.content, head + 1, Len(f.content) - foot) = actions_in_order(i)
               /\ f.content[1].text = "#!/usr/bin/env bash"
      /\ stp_config.runcmd.some
      /\ LET cmds == commands(stp_config.runcmd.text)
             pre == commands(stp_pre.text)
         IN  /\ Len(cmds) = Len(pre) + Len(stp_steps)
             /\ SubSeq(cmds, 1, Len(pre)) = pre
             /\ \A i \in 1..Len(stp_steps) :
                  LET l == cmds[Len(pre) + i]
                      f == stp_config.write_files[i]
                  IN  /\ l.vm = f.path.vm /\ l.step = f.path.step
                      /\ l.step = slugify(stp_steps[i].name)
                      /\ l.text \in {"bash " \o f.path.text,
                                     "cloud-init-per once intar-step- " \o f.path.text}

\* C25 witness: a visible and a hidden step, of two actions each, were
\* compiled after a runcmd line that had no line end.
C25_Witness ==
    /\ stp_pc = "done"
    /\ Len(stp_steps) = 2
    /\ stp_steps[1].actions = <<"systemctl", "file_write">>
    /\ stp_steps[2].actions = <<"command", "k8s_apply">>
    /\ stp_steps[1].name = <<120, 32, 120>>
    /\ stp_steps[2].name = str_break \o <<45, 120>>
    /\ stp_pre.some /\ Len(stp_pre.text) = 1
    /\ Len(stp_config.runcmd.text) = 6

\* C26: every scenario accepted by parsing and validate() has pairwise
\* distinct VM names, and every image name and probe name its VMs refer to
\* is defined in the scenario.
C26_AcceptedScenarioWellFormed ==
    scn_result = "ok" =>
      /\ \A i, j \in 1..Len(scenario.vms) :
           scenario.vms[i].name = scenario.vms[j].name => i = j
      /\ \A i \in 1..Len(scenario.vms) :
           /\ scenario.vms[i].image \in scenario.images
           /\ \A k \in 1..Len(scenario.vms[i].probes) :
                scenario.vms[i].probes[k] \in scenario.probes

\* C27: a scenario with exactly 145 VMs is accepted by address assignment,
\* its last VM getting management IP octet 244, and a scenario with 146 VMs
\* is rejected with a configuration error when its VMs are created.
C27_Boundary145 ==
    addr_pc = "done" =>
      /\ addr_vms = 145 => (addr_result = "ok" /\ addr_last.mgmt = 244)
      /\ addr_vms = 146 => addr_result # "ok"

\* C28: whenever the run loop ends after the initialization task has
\* produced a runner, also when the user quits or Ctrl-C arrives while the
\* initialization is just completing, stop() and cleanup() have been called
\* on that runner before run() returns.
C28_RunnerStoppedBeforeReturn ==
    (app_pc = "returned" /\ init_task = "ok") =>
        (runner_stop # "none" /\ runner_cleanup # "none")

\* C29: no QEMU child process is orphaned: every child spawned by
\* QemuInstance.start is owned by the instance (its `process` holds it), so
\* that a later stop or drop terminates it, also when start fails after the
\* spawn because the pid file cannot be written.
C29_NoOrphanedChild ==
    \A v \in AllVMs : child[v] = "running" => process[v]

\* C30: an image file whose sha256 digest does not match the checksum
\* declared for its source is never used as the base image of an overlay
\* disk, in the run that downloaded it or in any later run.
C30_MismatchedImageNeverUsed ==
    (img_checksum.prefix = "sha256:" /\ base_image # "none") =>
        base_image = img_checksum.hash

\* C31: wait_for_agents marks the VMs Ready only on overall success: every
\* VM becomes Ready iff the agent of every VM answered a ping; if an agent
\* fails or times out the call returns an error, a Timeout error naming the
\* VM on timeout, and the state of no VM is changed.
C31_ReadyOnlyOnSuccess ==
    wfa_pc = "done" =>
      /\ (\A v \in 1..wfa_vms : wfa_state[v] = "Ready") <=> (wfa_answered = 1..wfa_vms)
      /\ wfa_answered # 1..wfa_vms =>
           /\ \A v \in 1..wfa_vms : wfa_state[v] = "CloudInit"
           /\ wfa_result.kind = "Timeout"
           /\ wfa_result.vm = wfa_vm

\* C32: within one check_probes tick the check_all requests are issued one
\* VM at a time, the next one only after the response or failure of the
\* previous VM has been handled, and the VMs are visited in the order of
\* the scenario.
C32_OneVmAtATimeInOrder ==
    /\ Cardinality(tk_inflight) <= 1
    /\ \A i \in DOMAIN tk_sent : \A j \in 1..(i - 1) :
         /\ tk_sent[j] < tk_sent[i]
         /\ i < Len(tk_sent) => tk_sent[j] \in tk_handled

\* The greeting was read at line g: a line with the QMP key after event
\* lines only.
greeting_at(g) ==
    /\ g \in 1..hs_pos
    /\ "QMP" \in hs_stream[g]
    /\ hs_stream[g] # Garbage
    /\ \A i \in 1..(g - 1) :
         hs_stream[i] # Garbage /\ "event" \in hs_stream[i] /\ "QMP" \notin hs_stream[i]

\* The reply to qmp_capabilities was read at line r after the greeting at g:
\* a response without error, after lines that are no responses.
reply_at(g, r) ==
    /\ r \in (g + 1)..hs_pos
    /\ read_qmp_response_step(hs_stream[r]) = "response"
    /\ "error" \notin hs_stream[r]
    /\ \A i \in (g + 1)..(r - 1) : read_qmp_response_step(hs_stream[i]) = "skip"

\* C33: on every connection the client sends nothing before it has read the
\* QMP greeting, event lines before it being discarded; it then sends
\* qmp_capabilities, and it sends the command only after reading a
\* non-error reply to qmp_capabilities; an error reply aborts the call
\* without the command being sent.
C33_HandshakeOrder ==
    /\ Len(hs_sent) <= 2
    /\ hs_sent # <<>> =>
         /\ hs_sent[1] = "qmp_capabilities"
         /\ \E g \in 1..hs_pos : greeting_at(g)
    /\ Len(hs_sent) = 2 =>
         /\ hs_sent[2] = "command"
         /\ \E g \in 1..hs_pos : \E r \in 1..hs_pos : greeting_at(g) /\ reply_at(g, r)
    /\ hs_result = "err_capabilities" => Len(hs_sent) = 1

\* The command was sent after an event, the greeting and a non-error reply.
C33_Witness ==
    /\ Len(hs_sent) = 2
    /\ hs_pos = 3
    /\ "event" \in hs_stream[1]

\* The kinds and texts of the ActionLineEvents the host has produced.
RECURSIVE reported(_)
reported(lines) ==
    IF lines = <<>> THEN <<>>
    ELSE <<[kind |-> Head(lines).kind, line |-> Head(lines).line]>> \o reported(Tail(lines))

\* C34: for a session recorded by record_ssh, every completed non-empty
\* input line results in exactly one Input ActionLineEvent on the host and
\* every completed non-empty, non-prompt output line in exactly one Output
\* ActionLineEvent: once the host has handled every event written, the
\* lines it has reported are the lines the guest completed.
C34_SessionLinesReportedOnce ==
    rec_wire = <<>> => reported(tx_lines) = rec_expected

\* The host handles the event at the head of the wire.
handles(type) ==
    /\ rec_wire # <<>>
    /\ Head(rec_wire).type = type
    /\ rec_wire' = Tail(rec_wire)

\* C35: sessions on one action-stream connection are independent:
\* ssh_session_start resets the capture state including prefer-raw mode, so
\* the ssh_line and ssh_output events of a command session are forwarded as
\* lines even when an earlier session on the connection carried raw events.
C35_SessionsIndependent ==
    [][/\ handles("ssh_session_start") => ~line_state'.prefer_raw
       /\ (rec_pc = "command" /\ handles("ssh_line")) =>
            Len(tx_lines') = Len(tx_lines) + 1]_vars

\* C36: the state of a QemuInstance only moves forward along Starting,
\* Booting (on the spawn), CloudInit (launched by start_vms), Ready (the
\* agents responded); no operation moves it backward or takes it out of
\* Starting without a spawn.
C36_VmStateMovesForward ==
    [][\A n \in VmNames :
         (vs_vms[n] # NoVm /\ vs_vms'[n] # vs_vms[n]) =>
           /\ state_rank(vs_vms'[n]) > state_rank(vs_vms[n])
           /\ vs_vms[n] = "Starting" =>
                (vs_vms'[n] = "Booting" /\ vs_spawned'[n] = vs_spawned[n] + 1)]_vars

\* C37: any fatal failure concerning a VM (QEMU fails to spawn, its agent
\* fails or times out, a QMP or snapshot command fails) moves the state of
\* that VM to Error.
C37_FailureSetsError ==
    vs_failed # NoVm => vs_vms[vs_failed] = "Error"

\* C38: Completed is stable: once the ScenarioState is Completed, further
\* check_probes ticks never change it, even if the scenario probes fail
\* again; only a successful reset sets it back to Running, and a failed
\* reset leaves it Completed.
C38_CompletedStable ==
    [][state = "Completed" =>
         \/ state' = "Completed"
         \/ /\ state' = "Running"
            /\ op = "reset"
            /\ pc = "boot"
            /\ pc' = "running"]_vars

\* A reset of a completed scenario has cleared the results, and a tick of
\* the boot probes has run without all of them passing.
C38_Witness ==
    /\ state = "Completed"
    /\ op = "reset"
    /\ pc = "boot"
    /\ polls > 0

\* The stream handled so far, as one chunk given to a fresh LineCapture.
whole_stream == derive_lines(SubSeq(drv_chunk, 1, drv_pos), NoCapture, drv_kind)

\* C39: Line derivation is independent of chunking: for any byte stream and
\* any way of splitting it into consecutive raw events, feeding the chunks
\* in order emits the same sequence of lines as feeding the whole stream at
\* once, because the partial line and the in-escape flag are carried from
\* one chunk to the next.
C39_ChunkingIndependent ==
    /\ drv_st.out = whole_stream.out
    /\ drv_st.line = whole_stream.line
    /\ drv_st.escape = whole_stream.escape

\* A stream handled in three or more raw events, one of which began inside
\* an escape sequence and one inside a line that was then sent.
C39_Witness ==
    /\ drv_pos = Len(drv_chunk)
    /\ Len(drv_cuts) >= 3
    /\ drv_st.out # <<>>
    /\ LET first == derive_lines(SubSeq(drv_chunk, 1, drv_cuts[1]), NoCapture, drv_kind)
           second == derive_lines(SubSeq(drv_chunk, 1, drv_cuts[1] + drv_cuts[2]), NoCapture, drv_kind)
       IN  /\ first.escape
           /\ second.line # <<>>
           /\ second.out = <<>>

\* C40: Distinct step names within one VM compile to distinct script paths
\* and distinct `cloud-init-per once` ids, so that no step's script
\* overwrites another's: for any two steps of a VM with different names,
\* the slugs used in their paths and ids differ.
C40_DistinctNamesDistinctPaths ==
    \A i, j \in 1..Len(stp_config.write_files) :
        stp_steps[i].name # stp_steps[j].name =>
            /\ stp_config.write_files[i].path # stp_config.write_files[j].path
            /\ stp_config.write_files[i].path.step # stp_config.write_files[j].path.step

====
